---- MODULE Spec2Model ----
(***************************************************************************)
(* Model of the poor-tools web installer (src/poor_installer_web/app.py):  *)
(* tool discovery, name resolution, include expansion, placeholder         *)
(* substitution and the route table that composes them.                    *)
(*                                                                         *)
(* Text is modelled as TLA+ strings, character by character: the Python    *)
(* str methods the code calls (strip, startswith, split, replace, join,    *)
(* slicing) are the operators of the first section.                        *)
(***************************************************************************)
EXTENDS Integers, Sequences, FiniteSets, TLC

VARIABLES
    SCRIPT_DIR,   \* module global SCRIPT_DIR: the directory served
    environ,      \* os.environ.get("POOR_TOOLS_VERSION"), or None
    git_head,     \* output of `git rev-parse --short=8 HEAD` in BASE_DIR, or None
    fs,           \* the file system: absolute path -> file state
    request,      \* the request being answered (path, query, headers, scheme)
    response,     \* the response the handler produced
    calls,        \* the functions the handler called, in call order
    frame         \* the handler in progress when a request is followed step
                  \* by step: its position and locals (NoFrame otherwise)

vars == <<SCRIPT_DIR, environ, git_head, fs, request, response, calls, frame>>

\* Python's None; also the value of an absent header or query parameter.
\* (A reserved string, so that it compares with str values; no name, header
\* or text of the model equals it.)
None == "<None>"

(***************************************************************************)
(* Python str operations                                                   *)
(***************************************************************************)

\* s[i] as a one-character string (1-based).
CharAt(s, i) == SubSeq(s, i, i)

\* s[n:]
Drop(s, n) == IF n >= Len(s) THEN "" ELSE SubSeq(s, n + 1, Len(s))

\* s[:n]
Take(s, n) == IF n >= Len(s) THEN s ELSE SubSeq(s, 1, n)

\* s.startswith(p)
StartsWith(s, p) == Len(s) >= Len(p) /\ SubSeq(s, 1, Len(p)) = p

\* the characters str.strip() / str.rstrip() remove
Whitespace == {" ", "\t", "\n", "\r"}

RECURSIVE LStrip(_)
\* s.lstrip()
LStrip(s) ==
    IF s # "" /\ CharAt(s, 1) \in Whitespace THEN LStrip(Drop(s, 1)) ELSE s

RECURSIVE RStrip(_)
\* s.rstrip()
RStrip(s) ==
    IF s # "" /\ CharAt(s, Len(s)) \in Whitespace
    THEN RStrip(Take(s, Len(s) - 1))
    ELSE s

\* s.strip()
Strip(s) == LStrip(RStrip(s))

RECURSIVE Find(_, _, _)
\* 1-based index of the first occurrence of p in s at or after i; 0 if none.
\* The text is searched a stretch of 64 positions at a time.
Find(s, p, i) ==
    IF i + Len(p) - 1 > Len(s) THEN 0
    ELSE LET last == IF i + 63 < Len(s) - Len(p) + 1 THEN i + 63 ELSE Len(s) - Len(p) + 1
             hits == {j \in i..last : SubSeq(s, j, j + Len(p) - 1) = p}
         IN IF hits # {} THEN CHOOSE j \in hits : \A k \in hits : j <= k
            ELSE Find(s, p, last + 1)

\* p in s
Contains(s, p) == Find(s, p, 1) # 0

RECURSIVE Replace(_, _, _)
\* s.replace(old, new): every non-overlapping occurrence, left to right.
Replace(s, old, new) ==
    LET i == Find(s, old, 1) IN
    IF i = 0 THEN s
    ELSE Take(s, i - 1) \o new \o Replace(Drop(s, i + Len(old) - 1), old, new)

RECURSIVE Split(_, _)
\* s.split(sep): a non-empty sequence of strings.
Split(s, sep) ==
    LET i == Find(s, sep, 1) IN
    IF i = 0 THEN <<s>>
    ELSE <<Take(s, i - 1)>> \o Split(Drop(s, i + Len(sep) - 1), sep)

RECURSIVE Join(_, _)
\* sep.join(parts)
Join(parts, sep) ==
    IF Len(parts) = 0 THEN ""
    ELSE IF Len(parts) = 1 THEN parts[1]
    ELSE parts[1] \o sep \o Join(Tail(parts), sep)

\* Code points of the characters file names are made of, in ascending order.
CodePoints == "-./0123456789ABCDEFGHIJKLMNOPQRSTUVWXYZ_abcdefghijklmnopqrstuvwxyz"

\* ord(c), up to an order-preserving renumbering.
Ord(c) == Find(CodePoints, c, 1)

RECURSIVE StrLess(_, _)
\* a < b on str: lexicographic by code point.
StrLess(a, b) ==
    IF b = "" THEN FALSE
    ELSE IF a = "" THEN TRUE
    ELSE IF CharAt(a, 1) = CharAt(b, 1) THEN StrLess(Drop(a, 1), Drop(b, 1))
    ELSE Ord(CharAt(a, 1)) < Ord(CharAt(b, 1))

RECURSIVE Sorted(_)
\* sorted(S) for a set of distinct strings.
Sorted(S) ==
    IF S = {} THEN <<>>
    ELSE LET m == CHOOSE x \in S : \A y \in S \ {x} : StrLess(x, y)
         IN <<m>> \o Sorted(S \ {m})

\* x in list
InSeq(x, list) == \E i \in 1..Len(list) : list[i] = x

(***************************************************************************)
(* The file system the server reads                                        *)
(***************************************************************************)

Absent == [kind |-> "absent"]
Directory == [kind |-> "dir"]
\* A regular file; readable = the server's user may open it, utf8 = its bytes
\* decode as UTF-8 (text is then the decoded content).
File(text) == [kind |-> "file", readable |-> TRUE, utf8 |-> TRUE, text |-> text]
Unreadable(text) == [File(text) EXCEPT !.readable = FALSE]

\* base / rel of pathlib: an absolute rel replaces base, an empty rel is base.
JoinPath(base, rel) ==
    IF StartsWith(rel, "/") THEN rel
    ELSE IF rel = "" THEN base
    ELSE base \o "/" \o rel

\* Path.exists()
Exists(p) == p \in DOMAIN fs /\ fs[p].kind # "absent"

\* Path.is_file()
IsFile(p) == p \in DOMAIN fs /\ fs[p].kind = "file"

\* Path.read_text(encoding="utf-8") / open(): the text, or the exception raised.
ReadText(p) ==
    IF ~Exists(p) THEN [ok |-> FALSE, error |-> "FileNotFoundError"]
    ELSE IF fs[p].kind = "dir" THEN [ok |-> FALSE, error |-> "IsADirectoryError"]
    ELSE IF ~fs[p].readable THEN [ok |-> FALSE, error |-> "PermissionError"]
    ELSE IF ~fs[p].utf8 THEN [ok |-> FALSE, error |-> "UnicodeDecodeError"]
    ELSE [ok |-> TRUE, text |-> fs[p].text]

\* f.readline(): the first line, its newline included.
ReadLine(text) ==
    LET i == Find(text, "\n", 1) IN IF i = 0 THEN text ELSE Take(text, i)

\* Path.iterdir(): the names of the entries directly in dir.
IterDir(dir) ==
    { Drop(p, Len(dir) + 1) :
        p \in { q \in DOMAIN fs :
                  /\ Exists(q)
                  /\ StartsWith(q, dir \o "/")
                  /\ ~Contains(Drop(q, Len(dir) + 1), "/") } }

(***************************************************************************)
(* Tool repository and name resolver                                       *)
(***************************************************************************)

is_script_file(file_path) ==
    IF ~IsFile(file_path) THEN FALSE
    ELSE LET r == ReadText(file_path) IN
         IF ~r.ok THEN FALSE   \* except (UnicodeDecodeError, PermissionError)
         ELSE StartsWith(Strip(ReadLine(r.text)), "#!")

\* The names discover_tools keeps, before sorting.
DiscoveredSet ==
    { name \in IterDir(SCRIPT_DIR) :
        /\ is_script_file(JoinPath(SCRIPT_DIR, name))
        /\ ~(name \in {"main.py"} \/ StartsWith(name, ".")) }

\* Mutant: the listing is the one taken at startup, when the script
\* directory holds no script yet.
discover_tools_AtStartup == <<>>

discover_tools == Sorted(DiscoveredSet)

RECURSIVE FirstStripped(_, _, _)
\* The loop of normalize_tool_name over discovered_tools, from index i.
FirstStripped(tools, no_poor_name, i) ==
    IF i > Len(tools) THEN None
    ELSE IF tools[i] = no_poor_name \/ tools[i] = "poor" \o no_poor_name
         THEN tools[i]
         ELSE FirstStripped(tools, no_poor_name, i + 1)

\* Mutant: the prefixed match is tried before the exact match.
normalize_tool_name_PrefixFirst(tool_name) ==
    LET discovered_tools == discover_tools
        poor_name == "poor" \o tool_name
    IN  IF InSeq(poor_name, discovered_tools) THEN poor_name
        ELSE IF InSeq(tool_name, discovered_tools) THEN tool_name
        ELSE IF StartsWith(tool_name, "poor")
             THEN FirstStripped(discovered_tools, Drop(tool_name, 4), 1)
             ELSE None

\* Mutant: the prefixed match is never tried.
normalize_tool_name_NoPrefix(tool_name) ==
    LET discovered_tools == discover_tools
    IN  IF InSeq(tool_name, discovered_tools) THEN tool_name
        ELSE IF StartsWith(tool_name, "poor")
             THEN FirstStripped(discovered_tools, Drop(tool_name, 4), 1)
             ELSE None

\* The body of normalize_tool_name after discovered_tools = discover_tools().
NormalizeOver(tool_name, discovered_tools) ==
    LET poor_name == "poor" \o tool_name
    IN  IF InSeq(tool_name, discovered_tools) THEN tool_name
        ELSE IF InSeq(poor_name, discovered_tools) THEN poor_name
        ELSE IF StartsWith(tool_name, "poor")
             THEN FirstStripped(discovered_tools, Drop(tool_name, 4), 1)
             ELSE None

normalize_tool_name(tool_name) == NormalizeOver(tool_name, discover_tools)

(***************************************************************************)
(* Include resolver and placeholder substitutor                            *)
(***************************************************************************)

\* Mutant: the Form A directives inside the included content are expanded
\* once more.
IncludeOrKeep_Nested(line, file_path) ==
    IF Exists(file_path)
    THEN LET r == ReadText(file_path) IN
         IF r.ok
         THEN LET include_content == RStrip(r.text)
                  lines == Split(include_content, "\n")
                  inner(l) == ReadText(JoinPath(SCRIPT_DIR,
                                  Strip(Drop(Strip(l), Len("# INCLUDE_FILE:")))))
                  again == [i \in 1..Len(lines) |->
                              IF StartsWith(Strip(lines[i]), "# INCLUDE_FILE:")
                                 /\ inner(lines[i]).ok
                              THEN RStrip(inner(lines[i]).text) ELSE lines[i]]
              IN IF include_content # "" THEN <<Join(again, "\n")>> ELSE <<>>
         ELSE <<line>>
    ELSE <<line>>

\* Mutant: the included content is appended as read, not trimmed.
IncludeOrKeep_NoTrim(line, file_path) ==
    IF Exists(file_path)
    THEN LET r == ReadText(file_path) IN
         IF r.ok THEN (IF RStrip(r.text) # "" THEN <<r.text>> ELSE <<>>)
         ELSE <<line>>
    ELSE <<line>>

\* Mutant: a directive whose target cannot be read is dropped.
IncludeOrKeep_DropUnreadable(line, file_path) ==
    IF Exists(file_path)
    THEN LET r == ReadText(file_path) IN
         IF r.ok
         THEN LET include_content == RStrip(r.text) IN
              IF include_content # "" THEN <<include_content>> ELSE <<>>
         ELSE <<>>
    ELSE <<line>>

\* Mutant: an empty include leaves a blank line in place of the directive.
IncludeOrKeep_BlankLine(line, file_path) ==
    IF Exists(file_path)
    THEN LET r == ReadText(file_path) IN
         IF r.ok THEN <<RStrip(r.text)>>
         ELSE <<line>>
    ELSE <<line>>

\* The body shared by both directive forms of process_includes: what one
\* directive line contributes to result_lines.
IncludeOrKeep(line, file_path) ==
    IF Exists(file_path)
    THEN LET r == ReadText(file_path) IN
         IF r.ok
         THEN LET include_content == RStrip(r.text) IN
              IF include_content # "" THEN <<include_content>> ELSE <<>>
         ELSE <<line>>                       \* except Exception: keep the line
    ELSE <<line>>

\* One iteration of the loop of process_includes.
ProcessLine(line, base_dir) ==
    IF StartsWith(Strip(line), "# INCLUDE_FILE:")
    THEN LET include_path == Strip(Drop(Strip(line), Len("# INCLUDE_FILE:")))
         IN IncludeOrKeep(line, JoinPath(base_dir, include_path))
    ELSE IF Contains(line, "# <TEMPLATE>")
    THEN LET source_part == Strip(Split(line, "# <TEMPLATE>")[1]) IN
         IF StartsWith(source_part, "source ")
         THEN IncludeOrKeep(line,
                  JoinPath(base_dir, Strip(Drop(source_part, Len("source ")))))
         ELSE IF StartsWith(source_part, ". ")
         THEN IncludeOrKeep(line,
                  JoinPath(base_dir, Strip(Drop(source_part, Len(". ")))))
         ELSE <<line>>
    ELSE <<line>>

RECURSIVE ProcessLines(_, _)
ProcessLines(lines, base_dir) ==
    IF Len(lines) = 0 THEN <<>>
    ELSE ProcessLine(Head(lines), base_dir) \o ProcessLines(Tail(lines), base_dir)

\* Mutant: the result ends with one more line break.
process_includes_Trailing(content, base_dir) ==
    Join(ProcessLines(Split(content, "\n"), base_dir), "\n") \o "\n"

process_includes(content, base_dir) ==
    Join(ProcessLines(Split(content, "\n"), base_dir), "\n")

\* main.py, the single-file server: re.match(r"^\s*#\s*INCLUDE_FILE:\s*(.+?)\s*$")
\* on one line; the stripped group, or None when the line does not match.
IncludeMatch(line) ==
    LET t == LStrip(line) IN
    IF ~StartsWith(t, "#") THEN None
    ELSE LET u == LStrip(Drop(t, 1)) IN
         IF ~StartsWith(u, "INCLUDE_FILE:") THEN None
         ELSE IF Drop(u, Len("INCLUDE_FILE:")) = "" THEN None
         ELSE Strip(Drop(u, Len("INCLUDE_FILE:")))

\* main.py: one iteration of the loop of its process_includes.
ProcessLineMain(line, base_dir) ==
    IF IncludeMatch(line) = None THEN <<line>>
    ELSE LET include_path == IncludeMatch(line)
             include_file == JoinPath(base_dir, include_path)
         IN IF Exists(include_file)
            THEN LET r == ReadText(include_file) IN
                 IF r.ok
                 THEN << "# BEGIN INCLUDE: " \o include_path,
                         RStrip(r.text),
                         "# END INCLUDE: " \o include_path >>
                 ELSE <<line>>
            ELSE <<line>>

RECURSIVE ProcessLinesMain(_, _)
ProcessLinesMain(lines, base_dir) ==
    IF Len(lines) = 0 THEN <<>>
    ELSE ProcessLineMain(Head(lines), base_dir) \o ProcessLinesMain(Tail(lines), base_dir)

\* main.py: process_includes(content, base_dir)
process_includes_main(content, base_dir) ==
    Join(ProcessLinesMain(Split(content, "\n"), base_dir), "\n")

\* get_git_short_sha: the stripped output of git, or None when git fails.
get_git_short_sha == IF git_head = None THEN None ELSE Strip(git_head)

get_current_version ==
    IF environ # None /\ environ # "" THEN environ
    ELSE IF get_git_short_sha # None /\ get_git_short_sha # "" THEN get_git_short_sha
    ELSE "unknown"

\* Mutant: a token with no binding is blanked.
apply_common_placeholders_Blanking(content, server_url) ==
    Replace(Replace(Replace(content, "<BASE_URL>", server_url),
                    "<GIT_COMMIT_SHA>", get_current_version),
            "<TOOL_NAME>", "")

apply_common_placeholders(content, server_url) ==
    Replace(Replace(content, "<BASE_URL>", server_url),
            "<GIT_COMMIT_SHA>", get_current_version)

\* Mutant: x-forwarded-ssl is not read.
get_server_url_NoForwardedSsl(req) ==
    LET host == IF req.host = None THEN "localhost:7667" ELSE req.host
        scheme == IF req.xfp = "https" \/ req.scheme = "https"
                  THEN "https" ELSE "http"
    IN scheme \o "://" \o host

get_server_url(req) ==
    LET host == IF req.host = None THEN "localhost:7667" ELSE req.host
        scheme == IF \/ req.xfp = "https"
                     \/ req.xfs = "on"
                     \/ req.scheme = "https"
                  THEN "https" ELSE "http"
    IN scheme \o "://" \o host

(***************************************************************************)
(* Content dispatcher                                                      *)
(***************************************************************************)

PlainText(content) ==
    [status |-> 200, media_type |-> "text/plain; charset=utf-8", body |-> content]

\* raise HTTPException(status_code, detail), as FastAPI renders it.
HTTPException(status_code, detail) ==
    [status |-> status_code, media_type |-> "application/json",
     body |-> "{\"detail\":\"" \o detail \o "\"}"]

\* A function's outcome: its return value, or the exception it raised.
Return(value) == [raised |-> FALSE, value |-> value]
Raise(exc) == [raised |-> TRUE, exc |-> exc]

\* One entry of `calls`: a function and the argument it was called with.
Call(fn, arg) == [fn |-> fn, arg |-> arg]

\* The outcome of a function that may call process_includes, with that call.
Traced(outcome, called) == [outcome |-> outcome, calls |-> called]

get_file_content(filename, no_templating) ==
    LET file_path == JoinPath(SCRIPT_DIR, filename) IN
    IF ~Exists(file_path)
    THEN Traced(Raise(HTTPException(404, "File '" \o filename \o "' not found")), <<>>)
    ELSE LET r == ReadText(file_path) IN
         IF ~r.ok
         THEN Traced(Raise(HTTPException(500,
                  "Failed to read file '" \o filename \o "': " \o r.error)), <<>>)
         ELSE IF ~no_templating
              THEN Traced(Return(process_includes(r.text, SCRIPT_DIR)),
                          <<Call("process_includes", r.text)>>)
              ELSE Traced(Return(r.text), <<>>)

\* The hard-coded tool list of the installer template, and its replacement.
ToolsSentinel == "TOOLS=\"nmap curl curl-openssl column socat\""

RECURSIVE ToolNames_KeepPrefix(_)
\* Mutant: the names are listed as discovered, the prefix is kept.
ToolNames_KeepPrefix(tools) ==
    IF Len(tools) = 0 THEN <<>>
    ELSE <<Head(tools)>> \o ToolNames_KeepPrefix(Tail(tools))

RECURSIVE ToolNames(_)
\* The loop building tool_names in generate_tool_installer.
ToolNames(tools) ==
    IF Len(tools) = 0 THEN <<>>
    ELSE <<IF StartsWith(Head(tools), "poor") THEN Drop(Head(tools), 4)
           ELSE Head(tools)>> \o ToolNames(Tail(tools))

generate_tool_installer(tool_name, server_url, no_templating) ==
    LET template_path == JoinPath(JoinPath(SCRIPT_DIR, "templates"), "tool-installer.sh")
    IN
    IF ~Exists(template_path)
    THEN Traced(Raise(HTTPException(404, "Tool installer template not found")), <<>>)
    ELSE LET r == ReadText(template_path) IN
         IF ~r.ok
         THEN Traced(Raise(HTTPException(500,
                  "Failed to generate installer: " \o r.error)), <<>>)
         ELSE LET c1 == Replace(r.text, "<TOOL_NAME>", tool_name)
                  c2 == Replace(c1, "<SERVER_URL>", server_url)
                  c3 == IF tool_name = "all"
                        THEN Replace(c2, ToolsSentinel,
                                 "TOOLS=\"" \o Join(ToolNames(discover_tools), " ") \o "\"")
                        ELSE c2
              IN IF ~no_templating
                 THEN Traced(Return(process_includes(c3, SCRIPT_DIR)),
                             <<Call("process_includes", c3)>>)
                 ELSE Traced(Return(c3), <<>>)

(***************************************************************************)
(* Listing: metadata of the poor* scripts of BASE_DIR                       *)
(***************************************************************************)

\* BASE_DIR = get_default_script_dir(): the directory the package is run from.
BASE_DIR == "/srv/tools"

RECURSIVE ScanMetadata(_, _, _)
\* The loop of extract_script_metadata over the lines of the file, from line i.
ScanMetadata(lines, i, metadata) ==
    IF i > Len(lines) THEN metadata
    ELSE LET line == Strip(lines[i]) IN
         IF StartsWith(line, "# description:")
         THEN LET desc == Strip(Drop(line, 13)) IN
              ScanMetadata(lines, i + 1,
                  [metadata EXCEPT !.description =
                      IF StartsWith(desc, ":") THEN Strip(Drop(desc, 1)) ELSE desc])
         ELSE IF StartsWith(line, "# icon:")
         THEN ScanMetadata(lines, i + 1,
                  [metadata EXCEPT !.icon = Strip(Drop(line, 7))])
         ELSE IF StartsWith(line, "# version:")
         THEN LET version_line == Strip(Drop(line, 10)) IN
              ScanMetadata(lines, i + 1,
                  [metadata EXCEPT !.version =
                      IF version_line = "<GIT_COMMIT_SHA>" THEN get_current_version
                      ELSE version_line])
         ELSE IF line # "" /\ ~StartsWith(line, "#") THEN metadata   \* break
         ELSE ScanMetadata(lines, i + 1, metadata)

\* Iterating a text file yields its lines; a final newline ends the last line.
FileLines(text) ==
    LET parts == Split(text, "\n") IN
    IF parts[Len(parts)] = "" THEN SubSeq(parts, 1, Len(parts) - 1) ELSE parts

\* extract_script_metadata: the metadata, or the exception that escapes it
\* (only OSError is caught; UnicodeDecodeError is a ValueError).
extract_script_metadata(script_path, name) ==
    LET metadata == [name |-> name, description |-> "", icon |-> "",
                     version |-> get_current_version]
        r == ReadText(script_path)
    IN  IF r.ok THEN Return(ScanMetadata(FileLines(r.text), 1, metadata))
        ELSE IF r.error = "UnicodeDecodeError" THEN Raise(r.error)
        ELSE Return(metadata)

RECURSIVE MetadataOf(_)
MetadataOf(names) ==
    IF Len(names) = 0 THEN Return(<<>>)
    ELSE LET m == extract_script_metadata(JoinPath(BASE_DIR, Head(names)), Head(names))
             rest == MetadataOf(Tail(names))
         IN IF m.raised THEN m
            ELSE IF rest.raised THEN rest
            ELSE Return(<<m.value>> \o rest.value)

\* get_all_tools_metadata: sorted(BASE_DIR.glob("poor*")), regular files only.
get_all_tools_metadata ==
    MetadataOf(Sorted({ name \in IterDir(BASE_DIR) :
                          /\ StartsWith(name, "poor")
                          /\ IsFile(JoinPath(BASE_DIR, name))
                          /\ name # "poor_installer_web" }))

RECURSIVE IntToStr(_)
IntToStr(n) ==
    IF n < 10 THEN CharAt("0123456789", n + 1)
    ELSE IntToStr(n \div 10) \o CharAt("0123456789", (n % 10) + 1)

\* json.dumps of a str (ensure_ascii=False): quotes and backslashes escaped.
JsonStr(s) == "\"" \o Replace(Replace(s, "\\", "\\\\"), "\"", "\\\"") \o "\""

JsonTool(m) ==
    "    {\n      \"name\": " \o JsonStr(m.name)
    \o ",\n      \"description\": " \o JsonStr(m.description)
    \o ",\n      \"icon\": " \o JsonStr(m.icon)
    \o ",\n      \"version\": " \o JsonStr(m.version) \o "\n    }"

RECURSIVE JsonTools(_)
JsonTools(tools) ==
    IF Len(tools) = 0 THEN <<>> ELSE <<JsonTool(Head(tools))>> \o JsonTools(Tail(tools))

\* pretty_json_response of the listing dict: json.dumps(content, indent=2).
pretty_json_response(server_url, version, tools, count) ==
    [status |-> 200, media_type |-> "application/json; charset=utf-8",
     body |-> "{\n  \"server_url\": " \o JsonStr(server_url)
              \o ",\n  \"version\": " \o JsonStr(version)
              \o ",\n  \"tools\": "
              \o (IF Len(tools) = 0 THEN "[]"
                  ELSE "[\n" \o Join(JsonTools(tools), ",\n") \o "\n  ]")
              \o ",\n  \"count\": " \o IntToStr(count) \o "\n}"]

(***************************************************************************)
(* Routes, in registration order, and their handlers                       *)
(***************************************************************************)

\* s.endswith(p)
EndsWith(s, p) == Len(s) >= Len(p) /\ Drop(s, Len(s) - Len(p)) = p

\* A path parameter {name}: one non-empty segment without "/".
IsSegment(x) == x # "" /\ ~Contains(x, "/")

\* Mutant: the parameterised tool routes are registered before the fixed ones.
Route_ToolsFirst(path) ==
    IF path = "/" THEN [handler |-> "get_root", param |-> ""]
    ELSE IF /\ StartsWith(path, "/")
            /\ EndsWith(path, "/install")
            /\ IsSegment(SubSeq(path, 2, Len(path) - Len("/install")))
         THEN [handler |-> "get_tool_installer",
               param |-> SubSeq(path, 2, Len(path) - Len("/install"))]
    ELSE IF StartsWith(path, "/") /\ IsSegment(Drop(path, 1))
         THEN [handler |-> "get_tool_script", param |-> Drop(path, 1)]
    ELSE IF path \in {"/install", "/install/"}
         THEN [handler |-> "get_install_all", param |-> ""]
    ELSE IF path = "/list/json" THEN [handler |-> "list_tools_json", param |-> ""]
    ELSE IF StartsWith(path, "/install")
         THEN [handler |-> "get_installer_with_path", param |-> Drop(path, Len("/install"))]
    ELSE [handler |-> "no_route", param |-> ""]

\* Mutant: every path that begins with /install, /installer apart, is routed
\* to the bundle installer.
Route_InstallPrefix(path) ==
    IF path = "/" THEN [handler |-> "get_root", param |-> ""]
    ELSE IF path = "/list" THEN [handler |-> "list_tools", param |-> ""]
    ELSE IF path = "/help" THEN [handler |-> "help_tools", param |-> ""]
    ELSE IF path = "/list/json" THEN [handler |-> "list_tools_json", param |-> ""]
    ELSE IF path = "/installer" THEN [handler |-> "get_installer", param |-> ""]
    ELSE IF path = "/favicon.ico" THEN [handler |-> "favicon", param |-> ""]
    ELSE IF StartsWith(path, "/install")
         THEN [handler |-> "get_install_all", param |-> ""]
    ELSE IF path = "/health" THEN [handler |-> "health_check", param |-> ""]
    ELSE IF /\ StartsWith(path, "/")
            /\ EndsWith(path, "/install")
            /\ IsSegment(SubSeq(path, 2, Len(path) - Len("/install")))
         THEN [handler |-> "get_tool_installer",
               param |-> SubSeq(path, 2, Len(path) - Len("/install"))]
    ELSE IF StartsWith(path, "/") /\ IsSegment(Drop(path, 1))
         THEN [handler |-> "get_tool_script", param |-> Drop(path, 1)]
    ELSE [handler |-> "no_route", param |-> ""]

\* The first GET route (app.py, top to bottom) whose pattern matches the
\* whole path, with the value of its path parameter.
Route(path) ==
    IF path = "/" THEN [handler |-> "get_root", param |-> ""]
    ELSE IF path \in {"/install", "/install/"}
         THEN [handler |-> "get_install_all", param |-> ""]
    ELSE IF path = "/list" THEN [handler |-> "list_tools", param |-> ""]
    ELSE IF path = "/help" THEN [handler |-> "help_tools", param |-> ""]
    ELSE IF path = "/list/json" THEN [handler |-> "list_tools_json", param |-> ""]
    ELSE IF path = "/installer" THEN [handler |-> "get_installer", param |-> ""]
    ELSE IF path = "/favicon.ico" THEN [handler |-> "favicon", param |-> ""]
    ELSE IF StartsWith(path, "/install")
         THEN [handler |-> "get_installer_with_path", param |-> Drop(path, Len("/install"))]
    ELSE IF path = "/health" THEN [handler |-> "health_check", param |-> ""]
    ELSE IF /\ StartsWith(path, "/")
            /\ EndsWith(path, "/install")
            /\ IsSegment(SubSeq(path, 2, Len(path) - Len("/install")))
         THEN [handler |-> "get_tool_installer",
               param |-> SubSeq(path, 2, Len(path) - Len("/install"))]
    ELSE IF StartsWith(path, "/") /\ IsSegment(Drop(path, 1))
         THEN [handler |-> "get_tool_script", param |-> Drop(path, 1)]
    ELSE [handler |-> "no_route", param |-> ""]

\* What a handler did: its response and the functions it called, in order.
Done(resp, called) == [response |-> resp, calls |-> called]

\* An exception no handler catches: Starlette's plain 500 response.
Unhandled ==
    [status |-> 500, media_type |-> "text/plain; charset=utf-8",
     body |-> "Internal Server Error"]

\* str.lower() on the ASCII letters.
LowerChar(c) ==
    LET i == Find("ABCDEFGHIJKLMNOPQRSTUVWXYZ", c, 1) IN
    IF i = 0 THEN c ELSE CharAt("abcdefghijklmnopqrstuvwxyz", i)

RECURSIVE Lower(_)
Lower(s) == IF s = "" THEN "" ELSE LowerChar(CharAt(s, 1)) \o Lower(Drop(s, 1))

\* get_install_all: GET /install, GET /install/
get_install_all(req) ==
    LET server_url == get_server_url(req)
        t == generate_tool_installer("all", server_url, req.no_templating = "1")
        c == t.outcome
        called == <<Call("get_server_url", ""), Call("generate_tool_installer", "all")>>
                  \o t.calls
    IN IF c.raised THEN Done(c.exc, called) ELSE Done(PlainText(c.value), called)

\* list_tools: GET /list
list_tools(req) ==
    LET accept_header == Lower(IF req.accept = None THEN "" ELSE req.accept) IN
    IF Contains(accept_header, "json")
    THEN LET server_url == get_server_url(req)
             tools == get_all_tools_metadata
             called == <<Call("get_server_url", ""), Call("get_all_tools_metadata", "")>>
         IN IF tools.raised THEN Done(Unhandled, called)
            ELSE Done(pretty_json_response(server_url, get_current_version,
                                           tools.value, Len(tools.value)), called)
    ELSE Done([status |-> 200, media_type |-> "text/plain; charset=utf-8",
               body |-> Join(discover_tools, "\n") \o "\n"],
              <<Call("discover_tools", "")>>)

\* _serve_installer: the body of get_installer and get_installer_with_path
_serve_installer(req) ==
    LET t == get_file_content("poor", req.no_templating = "1")
        c == t.outcome
        called == <<Call("get_file_content", "poor")>> \o t.calls
    IN IF c.raised THEN Done(c.exc, called)
       ELSE IF req.no_templating # "1"
       THEN Done(PlainText(apply_common_placeholders(c.value, get_server_url(req))),
                 called \o <<Call("get_server_url", ""),
                             Call("apply_common_placeholders", "")>>)
       ELSE Done(PlainText(c.value), called)

\* get_installer: GET /installer
get_installer(req) == _serve_installer(req)

\* get_installer_with_path: GET /install{path:path}
get_installer_with_path(req, path) == _serve_installer(req)

\* health_check: GET /health
health_check ==
    Done([status |-> 200, media_type |-> "application/json",
          body |-> "{\"status\":\"ok\"}"], <<>>)

\* Mutant: a name that resolves to nothing is passed on to the generator.
get_tool_installer_NoCheck(tool_name, req) ==
    LET canonical_name == normalize_tool_name(tool_name)
        target == IF canonical_name = None THEN tool_name ELSE canonical_name
        t == generate_tool_installer(target, get_server_url(req),
                                     req.no_templating = "1")
        c == t.outcome
        called == <<Call("normalize_tool_name", tool_name), Call("get_server_url", ""),
                    Call("generate_tool_installer", target)>> \o t.calls
    IN IF c.raised THEN Done(c.exc, called) ELSE Done(PlainText(c.value), called)

\* get_tool_installer: GET /{tool_name}/install
get_tool_installer(tool_name, req) ==
    LET canonical_name == normalize_tool_name(tool_name)
        n == <<Call("normalize_tool_name", tool_name)>>
    IN IF canonical_name = None
       THEN Done(HTTPException(404, "Tool '" \o tool_name \o "' not found"), n)
       ELSE LET server_url == get_server_url(req)
                t == generate_tool_installer(canonical_name, server_url,
                                             req.no_templating = "1")
                c == t.outcome
                called == n \o <<Call("get_server_url", ""),
                                 Call("generate_tool_installer", canonical_name)>>
                          \o t.calls
            IN IF c.raised THEN Done(c.exc, called)
               ELSE Done(PlainText(c.value), called)

\* get_tool_script: GET /{tool_name}
get_tool_script(tool_name, req) ==
    IF tool_name \in {"health", "list", "install", "installer"}
    THEN Done(HTTPException(404, "Reserved endpoint"), <<>>)
    ELSE LET canonical_name == normalize_tool_name(tool_name)
             n == <<Call("normalize_tool_name", tool_name)>>
         IN IF canonical_name = None
            THEN Done(HTTPException(404, "Tool '" \o tool_name \o "' not found"), n)
            ELSE LET t == get_file_content(canonical_name, req.no_templating = "1")
                     c == t.outcome
                     called == n \o <<Call("get_file_content", canonical_name)>>
                               \o t.calls
                 IN IF c.raised THEN Done(c.exc, called)
                    ELSE IF req.no_templating # "1"
                    THEN Done(PlainText(apply_common_placeholders(
                                  c.value, get_server_url(req))),
                              called \o <<Call("get_server_url", ""),
                                          Call("apply_common_placeholders", "")>>)
                    ELSE Done(PlainText(c.value), called)

(***************************************************************************)
(* Catalog, help and JSON listing                                          *)
(***************************************************************************)

\* Mutant: the substrings are matched without lowering the User-Agent.
is_cli_user_agent_CaseSensitive(user_agent) ==
    IF user_agent = "" THEN TRUE
    ELSE \E agent \in { "curl/", "wget/", "httpie/", "lwp-request",
                        "python-requests/", "python-urllib", "go-http-client",
                        "rust-hyper", "libcurl" } :
             Contains(user_agent, agent)

is_cli_user_agent(user_agent) ==
    IF user_agent = "" THEN TRUE
    ELSE \E agent \in { "curl/", "wget/", "httpie/", "lwp-request",
                        "python-requests/", "python-urllib", "go-http-client",
                        "rust-hyper", "libcurl" } :
             Contains(Lower(user_agent), agent)

\* Path(__file__).parent / "assets": the templates and static files of the package.
AssetsDir == "/srv/app/assets"

load_template(template_name) ==
    LET template_path == JoinPath(JoinPath(AssetsDir, "templates"), template_name) IN
    IF ~Exists(template_path)
    THEN Raise(HTTPException(500, "Template '" \o template_name \o "' not found"))
    ELSE LET r == ReadText(template_path) IN
         IF r.ok THEN Return(r.text) ELSE Raise(Unhandled)

load_static_file(file_name) ==
    LET static_path == JoinPath(JoinPath(AssetsDir, "static"), file_name) IN
    IF ~Exists(static_path)
    THEN Raise(HTTPException(500, "Static file '" \o file_name \o "' not found"))
    ELSE LET r == ReadText(static_path) IN
         IF r.ok THEN Return(r.text) ELSE Raise(Unhandled)

\* U+2014 EM DASH, written in ASCII: a file that holds the character holds
\* this text in the model.
EmDash == "\\u2014"

\* s.split(sep, 1)[-1]: what follows the first sep, or s when it has none.
AfterFirst(s, sep) ==
    LET i == Find(s, sep, 1) IN IF i = 0 THEN s ELSE Drop(s, i + Len(sep) - 1)

RECURSIVE ScanDescription(_, _, _)
\* The loop of get_tool_description over the lines, line_num counted from 0.
ScanDescription(lines, line_num, tool_name) ==
    IF line_num >= Len(lines) \/ line_num >= 10 THEN ""
    ELSE LET line == Strip(lines[line_num + 1]) IN
         IF StartsWith(line, "# description:")
         THEN Strip(Drop(line, Len("# description:")))
         ELSE IF \/ StartsWith(line, "# " \o tool_name \o " " \o EmDash)
                 \/ StartsWith(line, "# " \o tool_name \o " -")
         THEN Strip(AfterFirst(AfterFirst(line, EmDash), "-"))
         ELSE ScanDescription(lines, line_num + 1, tool_name)

get_tool_description(tool_name) ==
    LET file_path == JoinPath(SCRIPT_DIR, tool_name) IN
    IF ~Exists(file_path) THEN ""
    ELSE LET r == ReadText(file_path) IN
         IF ~r.ok THEN ""   \* except Exception: pass
         ELSE ScanDescription(FileLines(r.text), 0, tool_name)

RECURSIVE ScanIcon(_, _)
\* The loop of get_tool_icon over the lines, line_num counted from 0.
ScanIcon(lines, line_num) ==
    IF line_num >= Len(lines) \/ line_num >= 10 THEN "mdi:wrench"
    ELSE LET line == Strip(lines[line_num + 1]) IN
         IF StartsWith(line, "# icon:")
         THEN LET icon == Strip(Drop(line, Len("# icon:"))) IN
              IF ~StartsWith(icon, "mdi:") THEN "mdi:" \o icon ELSE icon
         ELSE ScanIcon(lines, line_num + 1)

get_tool_icon(tool_name) ==
    LET file_path == JoinPath(SCRIPT_DIR, tool_name) IN
    IF ~Exists(file_path) THEN "mdi:wrench"
    ELSE LET r == ReadText(file_path) IN
         IF ~r.ok THEN "mdi:wrench"   \* except Exception: pass
         ELSE ScanIcon(FileLines(r.text), 0)

\* display_name of get_root and help_tools: tool.replace("poor", "", 1) for a
\* tool that starts with "poor", "poor" itself excepted.
DisplayName(tool) ==
    IF tool = "poor" THEN "poor"
    ELSE IF StartsWith(tool, "poor") THEN Drop(tool, 4) ELSE tool

ToolLinks(tools, server_url) ==
    [i \in 1..Len(tools) |->
        "- " \o server_url \o "/" \o DisplayName(tools[i])
             \o " (alias: /" \o tools[i] \o ")"]

InstallerLinks(tools, server_url) ==
    [i \in 1..Len(tools) |->
        "- " \o server_url \o "/" \o DisplayName(tools[i]) \o "/install"]

\* info_content of get_root.
info_content(server_url, tools) ==
    LET tool_links == ToolLinks(tools, server_url)
        installer_links == InstallerLinks(tools, server_url)
    IN
    "# poor-tools Web Installer\n\nAvailable endpoints:\n\n## Individual Tools (direct download):\n"
    \o Join(tool_links, "\n")
    \o "\n\n## Tool Installers (generates installer script):\n"
    \o Join(installer_links, "\n")
    \o "\n\n## Bundle Installer:\n- "
    \o server_url
    \o "/install (or /installer)\n\n## Usage Examples:\n\n# Install curl directly:\ncurl -sSL "
    \o server_url
    \o "/curl > ~/.local/bin/poorcurl && chmod +x ~/.local/bin/poorcurl\n\n# Generate and run installer for curl:\ncurl -sSL "
    \o server_url
    \o "/curl/install | sh\n\n# Install with options:\ncurl -sSL "
    \o server_url
    \o "/curl/install | sh -s -- --dest /usr/local/bin --emulate\n\n# Install all tools:\ncurl -sSL "
    \o server_url
    \o "/install | sh\n\nAll endpoints support ?no_templating=1 to disable include processing.\n"

\* One pass of the loop of get_root that builds tools_cards_html: the card of
\* tools[i + 1], i counted from 0.
tool_card(tools, i, server_url) ==
    LET tool == tools[i + 1]
        display_name == DisplayName(tool)
        description == get_tool_description(tool)
        icon == get_tool_icon(tool)
        delay == i * 100
        description_html ==
            IF description # ""
            THEN "<p class=\"tool-description\">" \o description \o "</p>" ELSE ""
        run_command ==
            "curl -sSL " \o server_url \o "/" \o display_name \o " | sh -s -- --help"
        install_command ==
            "curl -sSL " \o server_url \o "/" \o display_name \o "/install | sh"
    IN
    "\n        <div class=\"tool-card\" style=\"animation-delay: "
    \o IntToStr(delay)
    \o "ms\">\n          <div class=\"tool-header\">\n            <iconify-icon icon=\""
    \o icon
    \o "\" class=\"tool-icon\"></iconify-icon>\n            <h3 class=\"tool-name\">"
    \o display_name
    \o "</h3>\n          </div>\n          "
    \o description_html
    \o "\n          <div class=\"command-snippets\">\n            <div class=\"command-snippet\">\n              <span class=\"command-label\">Run directly:</span>\n              <div class=\"command-box\">\n                <pre class=\"command-code\" data-action=\"run\"><code class=\"language-bash\">"
    \o run_command
    \o "</code></pre>\n                <button class=\"clipboard-btn\" onclick=\"copyToClipboard(this, '"
    \o run_command
    \o "', 'run', '"
    \o display_name
    \o "')\" title=\"Copy command\">\n                  <iconify-icon icon=\"mdi:content-copy\"></iconify-icon>\n                </button>\n              </div>\n            </div>\n            <div class=\"command-snippet\">\n              <span class=\"command-label\">Install locally:</span>\n              <div class=\"command-box\">\n                <pre class=\"command-code\" data-action=\"install\"><code class=\"language-bash\">"
    \o install_command
    \o "</code></pre>\n                <button class=\"clipboard-btn\" onclick=\"copyToClipboard(this, '"
    \o install_command
    \o "', 'install', '"
    \o display_name
    \o "')\" title=\"Copy command\">\n                  <iconify-icon icon=\"mdi:content-copy\"></iconify-icon>\n                </button>\n              </div>\n            </div>\n          </div>\n        </div>"

RECURSIVE tools_cards_html(_, _, _)
tools_cards_html(tools, i, server_url) ==
    IF i >= Len(tools) THEN ""
    ELSE tool_card(tools, i, server_url) \o tools_cards_html(tools, i + 1, server_url)

HTMLResponse(content) ==
    [status |-> 200, media_type |-> "text/html; charset=utf-8", body |-> content]

\* get_root: GET /
get_root(req) ==
    LET server_url == get_server_url(req)
        tools == discover_tools
        user_agent == IF req.user_agent = None THEN "" ELSE req.user_agent
        called == <<Call("get_server_url", ""), Call("discover_tools", ""),
                    Call("is_cli_user_agent", user_agent)>>
    IN IF is_cli_user_agent(user_agent)
       THEN Done(PlainText(info_content(server_url, tools)), called)
       ELSE LET cards == tools_cards_html(tools, 0, server_url)
                template_content == load_template("index.html")
                css_content == load_static_file("style.css")
                js_content == load_static_file("script.js")
                loaded == called \o <<Call("load_template", "index.html")>>
            IN IF template_content.raised THEN Done(template_content.exc, loaded)
               ELSE IF css_content.raised
               THEN Done(css_content.exc,
                         loaded \o <<Call("load_static_file", "style.css")>>)
               ELSE IF js_content.raised
               THEN Done(js_content.exc,
                         loaded \o <<Call("load_static_file", "style.css"),
                                     Call("load_static_file", "script.js")>>)
               ELSE Done(HTMLResponse(
                        Replace(Replace(Replace(Replace(template_content.value,
                            "{{ css_content }}", css_content.value),
                            "{{ js_content }}", js_content.value),
                            "{{ commands_html }}", ""),
                            "{{ tools_cards_html }}", cards)),
                        loaded \o <<Call("load_static_file", "style.css"),
                                    Call("load_static_file", "script.js")>>)

\* help_content of help_tools.
help_content(server_url, tools) ==
    LET tool_links == ToolLinks(tools, server_url)
        installer_links == InstallerLinks(tools, server_url)
    IN
    "# poor-tools Available Tools\n\nAvailable tools and endpoints:\n\n## Direct Tool Downloads:\n"
    \o Join(tool_links, "\n")
    \o "\n\n## Tool Installers (generates installer script):\n"
    \o Join(installer_links, "\n")
    \o "\n\n## Batch Installer:\n- "
    \o server_url
    \o "/install (installs all tools)\n\n## Usage Examples:\n\n# Download and run a tool directly:\ncurl -sSL "
    \o server_url
    \o "/curl | sh\n\n# Install a tool to local bin:\ncurl -sSL "
    \o server_url
    \o "/curl/install | sh\n\n# Install all tools:\ncurl -sSL "
    \o server_url
    \o "/install | sh\n\n# Install with custom destination:\ncurl -sSL "
    \o server_url
    \o "/curl/install | sh -s -- --dest /usr/local/bin\n\n# Get simple tool list for scripting:\ncurl -sSL "
    \o server_url
    \o "/list\n\n# Get detailed tool metadata:\ncurl -sSL "
    \o server_url
    \o "/list -H \"Accept: application/json\"\n"

\* help_tools: GET /help
help_tools(req) ==
    Done(PlainText(help_content(get_server_url(req), discover_tools)),
         <<Call("get_server_url", ""), Call("discover_tools", "")>>)

\* list_tools_json: GET /list/json
list_tools_json(req) ==
    LET server_url == get_server_url(req)
        tools == get_all_tools_metadata
        called == <<Call("get_server_url", ""), Call("get_all_tools_metadata", "")>>
    IN IF tools.raised THEN Done(Unhandled, called)
       ELSE Done(pretty_json_response(server_url, get_current_version,
                                      tools.value, Len(tools.value)), called)

(***************************************************************************)
(* The deployments checked: two script directories and what their authors  *)
(* put in them                                                             *)
(***************************************************************************)

\* At most this many regular files lie directly in the script directory.
MaxFiles == 3

\* The default script directory (BASE_DIR): tools and their aliases.
ToolsDir == "/srv/tools"
\* A script directory given with --script-dir: scripts that use includes.
InclDir == "/srv/incl"

InstallerTemplate ==
    "N=<TOOL_NAME> U=<SERVER_URL>\n" \o ToolsSentinel \o "\n. lib/a.sh # <TEMPLATE>\n"

\* A template whose directive lines carry a placeholder.
TokenTemplate ==
    "# INCLUDE_FILE: lib/<TOOL_NAME>.sh\nsource lib/b.sh # <TEMPLATE>\n"

\* Host scripts: a Form A directive behind leading whitespace; both Form B
\* variants and a marker line that is no directive; directives whose targets
\* can never be read (the base directory, a directory, an absent absolute path).
HostA == "#!/bin/sh\n  # INCLUDE_FILE: lib/a.sh\nrun <BASE_URL>\n"
HostB == "#!/bin/sh\nsource lib/a.sh # <TEMPLATE>\n. lib/b.sh # <TEMPLATE>\necho x # <TEMPLATE>\n"
HostC == "#!/bin/sh\n# INCLUDE_FILE:\n# INCLUDE_FILE: lib\n. /etc/missing # <TEMPLATE>\n"

\* A script, or a template, with no directive and no placeholder.
PlainScript == "#!/bin/sh\necho plain\n"

PoorScript == "#!/bin/sh\nB=<BASE_URL> V=<GIT_COMMIT_SHA> T=<TOOL_NAME>\n# INCLUDE_FILE: lib/a.sh\n"

\* What authors write: <<path, text>>.
Authorable ==
    { <<ToolsDir \o "/curl", "#!/bin/sh\necho curl\n">>,
      <<ToolsDir \o "/poorcurl", "#!/bin/sh\n# description: fetch\necho <BASE_URL>\n">>,
      <<ToolsDir \o "/poorpoorcurl", "#!/bin/sh\necho poorpoorcurl\n">>,
      <<ToolsDir \o "/poor", PoorScript>>,
      <<ToolsDir \o "/health", "#!/bin/sh\necho health\n">>,
      <<ToolsDir \o "/poorlist", "#!/bin/sh\necho poorlist\n">>,
      <<ToolsDir \o "/install", "#!/bin/sh\necho install\n">>,
      <<ToolsDir \o "/notes", "no shebang\n">>,
      <<InclDir \o "/poortool", HostA>>,
      <<InclDir \o "/poortool", HostB>>,
      <<InclDir \o "/poortool", HostC>>,
      <<InclDir \o "/poortool", PlainScript>>,
      <<InclDir \o "/poor", PoorScript>>,
      <<InclDir \o "/templates/tool-installer.sh", InstallerTemplate>>,
      <<InclDir \o "/templates/tool-installer.sh", PlainScript>>,
      <<InclDir \o "/templates/tool-installer.sh", TokenTemplate>>,
      <<InclDir \o "/lib/a.sh", "A_OK\n">>,
      <<InclDir \o "/lib/a.sh", " \n">>,
      <<InclDir \o "/lib/a.sh", "# INCLUDE_FILE: lib/a.sh\nA2\n\n">>,
      <<InclDir \o "/lib/a.sh", "source lib/b.sh # <TEMPLATE>\nA3\n">>,
      <<InclDir \o "/lib/a.sh", "T=<TOOL_NAME> S=<SERVER_URL> B=<BASE_URL>\n">>,
      <<InclDir \o "/lib/b.sh", "B1\n  B2 \n">>,
      <<InclDir \o "/lib/b.sh", ". lib/a.sh # <TEMPLATE>\nB3\n">> }

\* The page template of the catalog: the four variables get_root fills in.
IndexHtml ==
    "<html><style>{{ css_content }}</style><script>{{ js_content }}</script>\n<body>{{ commands_html }}<main>{{ tools_cards_html }}</main></body></html>\n"

\* Files whose permissions an operator changes.
Chmodable == { ToolsDir \o "/curl", InclDir \o "/lib/a.sh" }

\* Directories and files that are part of the deployment and stay.
Deployed ==
    [p \in { ToolsDir \o "/templates", ToolsDir \o "/lib",
             InclDir \o "/templates", InclDir \o "/lib" } |-> Directory]
    @@ (ToolsDir \o "/templates/tool-installer.sh" :> File(InstallerTemplate))
    @@ (ToolsDir \o "/lib/a.sh" :> File("A_OK\n"))
    @@ (AssetsDir \o "/templates/index.html" :> File(IndexHtml))
    @@ (AssetsDir \o "/static/style.css" :> File("body { margin: 0 }\n"))
    @@ (AssetsDir \o "/static/script.js" :> File("function copyToClipboard() {}\n"))

\* What the authors of the catalog deployment write: scripts with metadata
\* headers, a tool without the prefix, a prefixed file that is no script, a
\* shebang behind a blank, a hidden file, the denylisted name, a script in a
\* subdirectory.
ListAuthorable ==
    { <<ToolsDir \o "/poorcat",
        "#!/bin/sh\n# poorcat " \o EmDash \o " print files - fast\n# icon: cat\n">>,
      <<ToolsDir \o "/poordog",
        "#!/bin/sh\n# description: fetch\n# icon: mdi:dog\n# version: 1.2\necho dog\n">>,
      <<ToolsDir \o "/poordog",
        "#!/bin/sh\necho dog\n# description: late\n# icon: late\n# version: 7\n">>,
      <<ToolsDir \o "/poordog",
        "#!/bin/sh\n#\n#\n#\n#\n#\n#\n#\n#\n#\n# description: far\n# icon: far\n# version: 9\n">>,
      <<ToolsDir \o "/cow", "#!/bin/sh\necho cow\n">>,
      <<ToolsDir \o "/poornote", "just notes\n">>,
      <<ToolsDir \o "/ws", " #!/bin/sh\necho ws\n">>,
      <<ToolsDir \o "/.hidden", "#!/bin/sh\n">>,
      <<ToolsDir \o "/main.py", "#!/usr/bin/env python3\n">>,
      <<ToolsDir \o "/lib/helper", "#!/bin/sh\n">> }

ListChmodable == { ToolsDir \o "/poorcat" }

\* A file whose bytes are no UTF-8 text, and where one is stored.
Binary == [File("") EXCEPT !.utf8 = FALSE]
BinaryPaths == { ToolsDir \o "/poordog" }

\* Deployed files that a faulty deployment lacks.
Undeployable ==
    { ToolsDir \o "/templates/tool-installer.sh",
      AssetsDir \o "/templates/index.html",
      AssetsDir \o "/static/script.js" }

\* At most this many deployed files are missing at a time.
MaxMissing == 1

AllPaths ==
    DOMAIN Deployed \cup { a[1] : a \in Authorable } \cup { a[1] : a \in ListAuthorable }

\* The regular files directly in dir.
TopLevelFiles(f, dir) ==
    { p \in DOMAIN f :
        /\ f[p].kind = "file"
        /\ StartsWith(p, dir \o "/")
        /\ ~Contains(Drop(p, Len(dir) + 1), "/") }

(***************************************************************************)
(* Requests                                                                *)
(***************************************************************************)

NoRequest ==
    [path |-> None, no_templating |-> None, accept |-> None, user_agent |-> None,
     host |-> None, xfp |-> None, xfs |-> None, scheme |-> None]
NoResponse == [status |-> 0, media_type |-> None, body |-> None]

\* No handler is in progress.
NoFrame == [pc |-> "idle", req |-> NoRequest, todo |-> <<>>, tools |-> {}, canonical |-> None]

\* Request paths sent to each deployment.
ToolsPaths ==
    { "/curl", "/poorcurl", "/poorpoorcurl", "/poor", "/nope", "/notes",
      "/health", "/poorhealth", "/list", "/poorlist",
      "/install", "/install/", "/installer", "/install-something", "/install/x",
      "/poorinstall", "/curl/install", "/poorcurl/install", "/nope/install",
      "/health/install", "/list/install", "/install/install", "/poor/install" }
InclPaths ==
    { "/tool", "/poortool", "/installer", "/install", "/install-x",
      "/tool/install", "/list", "/health" }

\* Values of the query parameter no_templating.
NoTemplatingValues == { None, "1", "0" }

\* Header sets: the few sent with every path, and every combination of the
\* headers get_server_url reads.
FewHeaders ==
    { [host |-> None, xfp |-> None, xfs |-> None, scheme |-> "http"],
      [host |-> "h.io", xfp |-> "https", xfs |-> None, scheme |-> "http"] }
AllHeaders ==
    [host : {None, "h.io", "<GIT_COMMIT_SHA>"}, xfp : {None, "https", "http"},
     xfs : {None, "on", "off"}, scheme : {"http", "https"}]

\* The Accept header matters to GET /list alone.
Accepts(path) == IF path = "/list" THEN {None, "Application/JSON"} ELSE {None}

\* The User-Agent header matters to GET / alone.
UserAgents(path) ==
    IF path = "/"
    THEN { None, "", "curl/8.5.0", "Wget/1.21", "curl", "Mozilla/5.0 (X11)",
           "my-LibCurl-client" }
    ELSE { None }

Requests(paths, headers) ==
    UNION { { [path |-> p, no_templating |-> nt, accept |-> a, user_agent |-> ua,
               host |-> h.host, xfp |-> h.xfp, xfs |-> h.xfs, scheme |-> h.scheme] :
              nt \in NoTemplatingValues, a \in Accepts(p), ua \in UserAgents(p),
              h \in headers } :
            p \in paths }

\* The requests sent to the catalog deployment.
ListAccepts(path) ==
    IF path = "/list"
    THEN { None, "application/json", "Text/X-JSON; q=0.8", "text/plain" }
    ELSE { None }

ListRequests ==
    UNION { { [NoRequest EXCEPT !.path = p, !.scheme = "http",
                                !.accept = a, !.user_agent = ua] :
              a \in ListAccepts(p), ua \in UserAgents(p) } :
            p \in { "/", "/list", "/list/json", "/help", "/install" } }

\* The requests of the main specification, by deployment.
MainRequests ==
    Requests(IF SCRIPT_DIR = ToolsDir THEN ToolsPaths ELSE InclPaths, FewHeaders)
\* The requests that exercise get_server_url.
UrlRequests ==
    Requests({"/curl", "/curl/install", "/install", "/installer", "/install-x",
              "/list", "/health"}, AllHeaders)

(***************************************************************************)
(* Actions.  The server answers one request at a time: a handler runs when *)
(* no request is being answered (request = NoRequest).                     *)
(***************************************************************************)

Idle == request' = NoRequest /\ response' = NoResponse /\ calls' = <<>>

\* The response has been sent: the server waits for the next request.
Deliver ==
    /\ request # NoRequest
    /\ Idle
    /\ UNCHANGED <<SCRIPT_DIR, environ, git_head, fs, frame>>

\* Between requests, an author creates or overwrites a file of the script directory.
Write(authorable) ==
    \E a \in authorable :
        /\ request = NoRequest
        /\ StartsWith(a[1], SCRIPT_DIR \o "/")
        /\ fs[a[1]] # File(a[2])
        /\ fs' = [fs EXCEPT ![a[1]] = File(a[2])]
        /\ Cardinality(TopLevelFiles(fs', SCRIPT_DIR)) <= MaxFiles
        /\ Idle
        /\ UNCHANGED <<SCRIPT_DIR, environ, git_head, frame>>

ExternalWrite == Write(Authorable)

\* Between requests, an author deletes a file of the script directory.
Remove(authorable) ==
    \E p \in { a[1] : a \in authorable } :
        /\ request = NoRequest
        /\ StartsWith(p, SCRIPT_DIR \o "/")
        /\ fs[p].kind = "file"
        /\ fs' = [fs EXCEPT ![p] = Absent]
        /\ Idle
        /\ UNCHANGED <<SCRIPT_DIR, environ, git_head, frame>>

ExternalRemove == Remove(Authorable)

\* Between requests, an operator makes a file unreadable to the server, or readable again.
Chmod(chmodable) ==
    \E p \in chmodable :
        /\ request = NoRequest
        /\ StartsWith(p, SCRIPT_DIR \o "/")
        /\ fs[p].kind = "file"
        /\ fs' = [fs EXCEPT ![p].readable = ~fs[p].readable]
        /\ Idle
        /\ UNCHANGED <<SCRIPT_DIR, environ, git_head, frame>>

ExternalChmod == Chmod(Chmodable)

\* Between requests, an author stores a binary file in the script directory.
ExternalWriteBinary ==
    \E p \in BinaryPaths :
        /\ request = NoRequest
        /\ StartsWith(p, SCRIPT_DIR \o "/")
        /\ fs[p] # Binary
        /\ fs' = [fs EXCEPT ![p] = Binary]
        /\ Cardinality(TopLevelFiles(fs', SCRIPT_DIR)) <= MaxFiles
        /\ Idle
        /\ UNCHANGED <<SCRIPT_DIR, environ, git_head, frame>>

\* Between requests, a deployed file goes missing or is restored.
ExternalUndeploy ==
    \E p \in Undeployable :
        /\ request = NoRequest
        /\ fs' = [fs EXCEPT ![p] = IF fs[p] = Absent THEN Deployed[p] ELSE Absent]
        /\ Cardinality({ q \in Undeployable : fs'[q] = Absent }) <= MaxMissing
        /\ Idle
        /\ UNCHANGED <<SCRIPT_DIR, environ, git_head, frame>>

\* The server answers req with what its handler did.
Respond(req, done) ==
    /\ request' = req
    /\ response' = done.response
    /\ calls' = <<Call(Route(req.path).handler, Route(req.path).param)>> \o done.calls
    /\ UNCHANGED <<SCRIPT_DIR, environ, git_head, fs, frame>>

GetInstallAll(reqs) ==
    /\ request = NoRequest
    /\ \E req \in reqs :
        /\ Route(req.path).handler = "get_install_all"
        /\ Respond(req, get_install_all(req))

ListTools(reqs) ==
    /\ request = NoRequest
    /\ \E req \in reqs :
        /\ Route(req.path).handler = "list_tools"
        /\ Respond(req, list_tools(req))

GetInstaller(reqs) ==
    /\ request = NoRequest
    /\ \E req \in reqs :
        /\ Route(req.path).handler = "get_installer"
        /\ Respond(req, get_installer(req))

GetInstallerWithPath(reqs) ==
    /\ request = NoRequest
    /\ \E req \in reqs :
        /\ Route(req.path).handler = "get_installer_with_path"
        /\ Respond(req, get_installer_with_path(req, Route(req.path).param))

HealthCheck(reqs) ==
    /\ request = NoRequest
    /\ \E req \in reqs :
        /\ Route(req.path).handler = "health_check"
        /\ Respond(req, health_check)

GetToolInstaller(reqs) ==
    /\ request = NoRequest
    /\ \E req \in reqs :
        /\ Route(req.path).handler = "get_tool_installer"
        /\ Respond(req, get_tool_installer(Route(req.path).param, req))

GetToolScript(reqs) ==
    /\ request = NoRequest
    /\ \E req \in reqs :
        /\ Route(req.path).handler = "get_tool_script"
        /\ Respond(req, get_tool_script(Route(req.path).param, req))

GetRoot(reqs) ==
    /\ request = NoRequest
    /\ \E req \in reqs :
        /\ Route(req.path).handler = "get_root"
        /\ Respond(req, get_root(req))

HelpTools(reqs) ==
    /\ request = NoRequest
    /\ \E req \in reqs :
        /\ Route(req.path).handler = "help_tools"
        /\ Respond(req, help_tools(req))

ListToolsJson(reqs) ==
    /\ request = NoRequest
    /\ \E req \in reqs :
        /\ Route(req.path).handler = "list_tools_json"
        /\ Respond(req, list_tools_json(req))

(***************************************************************************)
(* GET /{tool_name} followed step by step: the directory scan, the          *)
(* eligibility check of each entry, the existence check and the read are    *)
(* separate file system calls, and the directory may change between them    *)
(***************************************************************************)

\* The files that come and go while a request is in progress.
RaceAuthorable ==
    { <<ToolsDir \o "/curl", "#!/bin/sh\necho curl\n">>,
      <<ToolsDir \o "/poorcurl", "#!/bin/sh\n# description: fetch\necho <BASE_URL>\n">>,
      <<ToolsDir \o "/notes", "no shebang\n">> }

RaceRequests ==
    { [NoRequest EXCEPT !.path = p, !.scheme = "http", !.no_templating = nt] :
        p \in {"/curl", "/poorcurl", "/nope"}, nt \in {None, "1"} }

\* The handler is done: the response is sent.
RaceRespond(resp, called) ==
    /\ request' = frame.req
    /\ response' = resp
    /\ calls' = <<Call("get_tool_script", Route(frame.req.path).param)>> \o called
    /\ frame' = NoFrame
    /\ UNCHANGED <<SCRIPT_DIR, environ, git_head, fs>>

\* One step of the handler that sends nothing yet.
RaceStep(next) ==
    /\ frame' = next
    /\ UNCHANGED <<SCRIPT_DIR, environ, git_head, fs, request, response, calls>>

\* get_tool_script is entered, normalize_tool_name calls discover_tools, and
\* SCRIPT_DIR.iterdir() lists the directory.
RaceScan(reqs) ==
    /\ request = NoRequest
    /\ frame = NoFrame
    /\ \E req \in reqs :
        /\ Route(req.path).handler = "get_tool_script"
        /\ Route(req.path).param \notin {"health", "list", "install", "installer"}
        /\ RaceStep([NoFrame EXCEPT !.pc = "is_file", !.req = req,
                                    !.todo = Sorted(IterDir(SCRIPT_DIR))])

\* is_script_file: file_path.is_file() on the next entry of the listing; once
\* the listing is exhausted, the rest of normalize_tool_name.
RaceIsFile ==
    /\ frame.pc = "is_file"
    /\ IF frame.todo = <<>>
       THEN LET tool_name == Route(frame.req.path).param
                canonical_name == NormalizeOver(tool_name, Sorted(frame.tools))
            IN IF canonical_name = None
               THEN RaceRespond(HTTPException(404, "Tool '" \o tool_name \o "' not found"),
                                <<Call("normalize_tool_name", tool_name)>>)
               ELSE RaceStep([frame EXCEPT !.pc = "exists", !.canonical = canonical_name])
       ELSE IF IsFile(JoinPath(SCRIPT_DIR, Head(frame.todo)))
            THEN RaceStep([frame EXCEPT !.pc = "open"])
            ELSE RaceStep([frame EXCEPT !.todo = Tail(frame.todo)])

\* is_script_file: file_path.open() and readline(), then the denylist of
\* discover_tools.  Only UnicodeDecodeError and PermissionError are caught.
RaceOpen ==
    /\ frame.pc = "open"
    /\ LET name == Head(frame.todo)
           r == ReadText(JoinPath(SCRIPT_DIR, name))
           listed == /\ r.ok
                     /\ StartsWith(Strip(ReadLine(r.text)), "#!")
                     /\ ~(name \in {"main.py"} \/ StartsWith(name, "."))
       IN IF ~r.ok /\ r.error \notin {"UnicodeDecodeError", "PermissionError"}
          THEN RaceRespond(Unhandled, <<Call("normalize_tool_name",
                                             Route(frame.req.path).param)>>)
          ELSE RaceStep([frame EXCEPT !.pc = "is_file", !.todo = Tail(frame.todo),
                             !.tools = IF listed THEN frame.tools \cup {name}
                                       ELSE frame.tools])

\* get_file_content: file_path.exists()
RaceExists ==
    /\ frame.pc = "exists"
    /\ LET called == <<Call("normalize_tool_name", Route(frame.req.path).param),
                       Call("get_file_content", frame.canonical)>>
       IN IF ~Exists(JoinPath(SCRIPT_DIR, frame.canonical))
          THEN RaceRespond(HTTPException(404,
                               "File '" \o frame.canonical \o "' not found"), called)
          ELSE RaceStep([frame EXCEPT !.pc = "read_text"])

\* get_file_content: file_path.read_text(), the includes, and the rest of
\* get_tool_script.
RaceRead ==
    /\ frame.pc = "read_text"
    /\ LET req == frame.req
           called == <<Call("normalize_tool_name", Route(req.path).param),
                       Call("get_file_content", frame.canonical)>>
           r == ReadText(JoinPath(SCRIPT_DIR, frame.canonical))
       IN IF ~r.ok
          THEN RaceRespond(HTTPException(500, "Failed to read file '"
                               \o frame.canonical \o "': " \o r.error), called)
          ELSE IF req.no_templating = "1"
          THEN RaceRespond(PlainText(r.text), called)
          ELSE RaceRespond(
                   PlainText(apply_common_placeholders(
                       process_includes(r.text, SCRIPT_DIR), get_server_url(req))),
                   called \o <<Call("process_includes", r.text),
                               Call("get_server_url", ""),
                               Call("apply_common_placeholders", "")>>)

(***************************************************************************)
(* Specifications                                                          *)
(***************************************************************************)

\* The deployment at startup: nothing authored yet.
InitFs == [p \in AllPaths |-> IF p \in DOMAIN Deployed THEN Deployed[p] ELSE Absent]

InitWith(dirs, envs, heads) ==
    /\ SCRIPT_DIR \in dirs
    /\ environ \in envs
    /\ git_head \in heads
    /\ fs = InitFs
    /\ request = NoRequest
    /\ response = NoResponse
    /\ calls = <<>>
    /\ frame = NoFrame

\* The default deployment: tools and aliases, the version taken from git.
Init == InitWith({ToolsDir}, {None}, {"1a2b3c4d\n"})

Next ==
    \/ Deliver
    \/ ExternalWrite
    \/ ExternalRemove
    \/ ExternalChmod
    \/ GetInstallAll(MainRequests)
    \/ ListTools(MainRequests)
    \/ GetInstaller(MainRequests)
    \/ GetInstallerWithPath(MainRequests)
    \/ HealthCheck(MainRequests)
    \/ GetToolInstaller(MainRequests)
    \/ GetToolScript(MainRequests)

Spec == Init /\ [][Next]_vars

\* A deployment started with --script-dir: scripts that include library files.
InitIncl == InitWith({InclDir}, {"v2"}, {None})

SpecIncl == InitIncl /\ [][Next]_vars

\* The catalog deployment: the listing views over scripts with metadata, and
\* deployed files that go missing.
InitList == InitWith({ToolsDir}, {None}, {"1a2b3c4d\n"})

NextList ==
    \/ Deliver
    \/ Write(ListAuthorable)
    \/ Remove(ListAuthorable)
    \/ Chmod(ListChmodable)
    \/ ExternalWriteBinary
    \/ ExternalUndeploy
    \/ GetRoot(ListRequests)
    \/ HelpTools(ListRequests)
    \/ ListTools(ListRequests)
    \/ ListToolsJson(ListRequests)
    \/ GetInstallAll(ListRequests)

SpecList == InitList /\ [][NextList]_vars

\* One request for a tool script at a time, followed step by step while the
\* authors and the operator change the script directory.
NextRace ==
    \/ Deliver
    \/ Write(RaceAuthorable)
    \/ Remove(RaceAuthorable)
    \/ Chmod(Chmodable)
    \/ RaceScan(RaceRequests)
    \/ RaceIsFile
    \/ RaceOpen
    \/ RaceExists
    \/ RaceRead

SpecRace == Init /\ [][NextRace]_vars

\* get_server_url over every combination of the headers it reads, in a
\* deployment whose scripts and template carry the URL placeholders.
UrlFs ==
    [InitFs EXCEPT ![ToolsDir \o "/poorcurl"] =
                       File("#!/bin/sh\n# description: fetch\necho <BASE_URL>\n"),
                   ![ToolsDir \o "/poor"] = File(PoorScript)]

NextUrl ==
    \/ Deliver
    \/ GetInstallAll(UrlRequests)
    \/ ListTools(UrlRequests)
    \/ GetInstaller(UrlRequests)
    \/ GetInstallerWithPath(UrlRequests)
    \/ HealthCheck(UrlRequests)
    \/ GetToolInstaller(UrlRequests)
    \/ GetToolScript(UrlRequests)

InitUrl ==
    /\ SCRIPT_DIR = ToolsDir
    /\ environ = None
    /\ git_head = None
    /\ fs = UrlFs
    /\ request = NoRequest
    /\ response = NoResponse
    /\ calls = <<>>
    /\ frame = NoFrame

SpecUrl == InitUrl /\ [][NextUrl]_vars

(***************************************************************************)
(* What a state shows of the request just answered                         *)
(***************************************************************************)

Answered == request # NoRequest

\* The handler the router called.
Handler == IF Answered THEN calls[1].fn ELSE None

Called(fn) == \E i \in 1..Len(calls) : calls[i].fn = fn

\* The argument of the first call of fn.
ArgOf(fn) == calls[CHOOSE i \in 1..Len(calls) :
                     /\ calls[i].fn = fn
                     /\ \A j \in 1..(i - 1) : calls[j].fn # fn].arg

\* The canonical name the handler went on with after normalize_tool_name:
\* the file it served or the tool it generated an installer for; None when it
\* stopped there.
Resolved ==
    IF Called("get_file_content") THEN ArgOf("get_file_content")
    ELSE IF Called("generate_tool_installer") THEN ArgOf("generate_tool_installer")
    ELSE None

\* The response of a tool route to a name that resolved to nothing.
ToolNotFound(name) == HTTPException(404, "Tool '" \o name \o "' not found")

\* What the server answers to req in the current state, whatever its route.
Dispatch(req) ==
    LET r == Route(req.path) IN
    CASE r.handler = "get_install_all" -> get_install_all(req)
      [] r.handler = "list_tools" -> list_tools(req)
      [] r.handler = "get_installer" -> get_installer(req)
      [] r.handler = "get_installer_with_path" -> get_installer_with_path(req, r.param)
      [] r.handler = "health_check" -> health_check
      [] r.handler = "get_tool_installer" -> get_tool_installer(r.param, req)
      [] r.handler = "get_tool_script" -> get_tool_script(r.param, req)
      [] r.handler = "get_root" -> get_root(req)
      [] r.handler = "help_tools" -> help_tools(req)
      [] r.handler = "list_tools_json" -> list_tools_json(req)

(***************************************************************************)
(* C1  normalize_tool_name(requested) over the discovered set D returns,   *)
(* in strict priority: requested if it is in D; else "poor"+requested if   *)
(* that is in D; else, if requested starts with "poor", requested without  *)
(* its first four characters if that is in D; else None.  The result is    *)
(* None or a member of D.                                                  *)
(***************************************************************************)

C1_Expected(requested, D) ==
    IF requested \in D THEN requested
    ELSE IF ("poor" \o requested) \in D THEN "poor" \o requested
    ELSE IF StartsWith(requested, "poor") /\ Drop(requested, 4) \in D
         THEN Drop(requested, 4)
    ELSE None

\* C1: every tool request goes on with exactly the name the priority rule
\* gives for the discovered set of that moment, and answers 404 when it is None.
C1_Resolution ==
    Called("normalize_tool_name") =>
        LET requested == ArgOf("normalize_tool_name")
            want == C1_Expected(requested, DiscoveredSet)
        IN /\ Resolved = want
           /\ Resolved = None \/ Resolved \in DiscoveredSet
           /\ Resolved = None <=> response = ToolNotFound(requested)

\* The third rule decides: "poorcurl" is requested, only "curl" is discovered.
C1_Witness ==
    /\ Called("normalize_tool_name")
    /\ ArgOf("normalize_tool_name") = "poorcurl"
    /\ Resolved = "curl"
    /\ response.status = 200

(***************************************************************************)
(* C2  For every discovered set D and every name n with "poor"+n in D,     *)
(* normalize_tool_name(n) and normalize_tool_name("poor"+n) both return    *)
(* "poor"+n, so GET /n and GET /poor+n (and their /install forms) return   *)
(* identical bodies; a name matching no rule yields NotFound.              *)
(***************************************************************************)

\* The name n of a request GET /n or GET /n/install; None for any other path.
C2_Name ==
    IF ~Answered THEN None
    ELSE IF EndsWith(request.path, "/install")
            /\ IsSegment(SubSeq(request.path, 2, Len(request.path) - Len("/install")))
         THEN SubSeq(request.path, 2, Len(request.path) - Len("/install"))
    ELSE IF IsSegment(Drop(request.path, 1)) THEN Drop(request.path, 1)
    ELSE None

\* The same request for the prefixed name: GET /poor+n, GET /poor+n/install.
C2_Twin == [request EXCEPT !.path = "/poor" \o Drop(request.path, 1)]

\* C2 as stated: whenever "poor"+n is discovered, n resolves to "poor"+n and
\* GET /n answers what GET /poor+n answers.
C2_Original ==
    (C2_Name # None /\ ("poor" \o C2_Name) \in DiscoveredSet) =>
        /\ normalize_tool_name(C2_Name) = "poor" \o C2_Name
        /\ response = Dispatch(C2_Twin).response

\* C2 amended: the same, for names n that are not themselves discovered and
\* whose path reaches a tool route (an earlier route claims /list, /help,
\* /health, /favicon.ico and every path that begins with /install); and a tool
\* request whose name matches no rule is answered 404 Not Found.
C2_Aliases ==
    /\ ( /\ C2_Name # None
         /\ ("poor" \o C2_Name) \in DiscoveredSet
         /\ C2_Name \notin DiscoveredSet
         /\ Handler \in {"get_tool_script", "get_tool_installer"} ) =>
            /\ Resolved = "poor" \o C2_Name
            /\ normalize_tool_name("poor" \o C2_Name) = "poor" \o C2_Name
            /\ response = Dispatch(C2_Twin).response
    /\ ( /\ Called("normalize_tool_name")
         /\ C1_Expected(ArgOf("normalize_tool_name"), DiscoveredSet) = None ) =>
            /\ response.status = 404
            /\ response = ToolNotFound(ArgOf("normalize_tool_name"))

\* GET /curl is answered from poorcurl, the only one of the two discovered.
C2_Witness ==
    /\ Answered
    /\ request.path = "/curl"
    /\ "poorcurl" \in DiscoveredSet
    /\ "curl" \notin DiscoveredSet
    /\ Resolved = "poorcurl"
    /\ response.status = 200
    /\ response = Dispatch(C2_Twin).response

(***************************************************************************)
(* Include directives as the specification describes them                  *)
(***************************************************************************)

\* Form A: "# INCLUDE_FILE: <path>" behind any leading whitespace.
FormA(line) == StartsWith(Strip(line), "# INCLUDE_FILE:")

\* Form B: "source <path> # <TEMPLATE>" or ". <path> # <TEMPLATE>".
FormB(line) ==
    /\ ~FormA(line)
    /\ Contains(line, "# <TEMPLATE>")
    /\ LET body == Strip(Take(line, Find(line, "# <TEMPLATE>", 1) - 1))
       IN StartsWith(body, "source ") \/ StartsWith(body, ". ")

IsDirective(line) == FormA(line) \/ FormB(line)

\* The file a directive line names, under the script directory.
TargetOf(line) ==
    IF FormA(line)
    THEN JoinPath(SCRIPT_DIR, Strip(Drop(Strip(line), Len("# INCLUDE_FILE:"))))
    ELSE LET body == Strip(Take(line, Find(line, "# <TEMPLATE>", 1) - 1))
         IN JoinPath(SCRIPT_DIR,
                Strip(Drop(body, IF StartsWith(body, "source ") THEN 7 ELSE 2)))

\* The target exists and can be read as text.
Readable(p) == Exists(p) /\ ReadText(p).ok

\* The target's content with trailing whitespace trimmed ("" if unreadable).
Trimmed(p) == IF Readable(p) THEN RStrip(ReadText(p).text) ELSE ""

\* The directive lines of a text.
DirectivesOf(text) ==
    { Split(text, "\n")[i] : i \in { j \in 1..Len(Split(text, "\n")) :
                                       IsDirective(Split(text, "\n")[j]) } }

\* The text process_includes was given, when it was called.
Included == Called("process_includes")
IncludeInput == ArgOf("process_includes")

\* What the handler does to the expanded text before it answers: the file
\* routes substitute the common placeholders, the installer routes nothing.
AfterIncludes(text) ==
    IF Called("apply_common_placeholders")
    THEN apply_common_placeholders(text, get_server_url(request))
    ELSE text

\* The lines of the response body.
BodyLines == Split(response.body, "\n")

(***************************************************************************)
(* C3  With templating enabled, process_includes replaces each Form A and  *)
(* Form B line whose target exists, is readable and is non-empty by the    *)
(* target's content with trailing whitespace trimmed, at the same          *)
(* position, and leaves every other line unchanged and in order; the       *)
(* directive line itself no longer appears in the output.                  *)
(***************************************************************************)

\* What one line becomes: the trimmed content of its target, or itself.
C3_Line(line) ==
    IF IsDirective(line) /\ Trimmed(TargetOf(line)) # ""
    THEN Trimmed(TargetOf(line)) ELSE line

RECURSIVE C3_Lines(_)
C3_Lines(lines) ==
    IF Len(lines) = 0 THEN <<>> ELSE <<C3_Line(Head(lines))>> \o C3_Lines(Tail(lines))

\* No directive of the text names a readable file that is empty once trimmed.
C3_NoEmptyTarget(text) ==
    \A line \in DirectivesOf(text) :
        Readable(TargetOf(line)) => Trimmed(TargetOf(line)) # ""

C4_Degraded ==
    Included =>
        /\ response.status = 200
        /\ \A line \in DirectivesOf(IncludeInput) :
               ~Readable(TargetOf(line)) => InSeq(AfterIncludes(line), BodyLines)
        /\ (\A line \in DirectivesOf(IncludeInput) : ~Readable(TargetOf(line)))
               => response.body = AfterIncludes(IncludeInput)
        /\ \A line \in DirectivesOf(IncludeInput) :
               ~Readable(TargetOf(line)) =>
                   InSeq(line, Split(process_includes_main(IncludeInput, SCRIPT_DIR), "\n"))
        /\ (\A line \in DirectivesOf(IncludeInput) : ~Readable(TargetOf(line)))
               => process_includes_main(IncludeInput, SCRIPT_DIR) = IncludeInput

\* A script whose only directive names a file the server may not read.
C4_Witness ==
    /\ Included
    /\ request.path = "/tool"
    /\ IncludeInput = HostA
    /\ Exists(InclDir \o "/lib/a.sh")
    /\ ~Readable(InclDir \o "/lib/a.sh")
    /\ response.status = 200
    /\ InSeq("  # INCLUDE_FILE: lib/a.sh", BodyLines)

(***************************************************************************)
(* The templated endpoints and the file each one serves                    *)
(***************************************************************************)

Templated ==
    /\ Handler \in { "get_tool_script", "get_installer", "get_installer_with_path",
                     "get_install_all", "get_tool_installer" }
    /\ response.status = 200

\* The file behind the response: the script served, or the installer template.
SourcePath ==
    IF Called("get_file_content")
    THEN JoinPath(SCRIPT_DIR, ArgOf("get_file_content"))
    ELSE JoinPath(JoinPath(SCRIPT_DIR, "templates"), "tool-installer.sh")

SourceText == ReadText(SourcePath).text

(***************************************************************************)
(* C5  Include expansion is bypassed if and only if no_templating equals   *)
(* exactly "1": with no_templating=1 every Form A and Form B directive     *)
(* line of the source file appears verbatim in the response; with the      *)
(* parameter absent or any other value, directives whose targets are       *)
(* readable are expanded.                                                  *)
(***************************************************************************)

\* C5 as stated.
C5_Original ==
    Templated =>
        /\ (request.no_templating = "1") <=> ~Included
        /\ request.no_templating = "1" =>
               \A line \in DirectivesOf(SourceText) : InSeq(line, BodyLines)
        /\ (request.no_templating # "1" /\ C3_NoEmptyTarget(IncludeInput)) =>
               response.body =
                   AfterIncludes(Join(C3_Lines(Split(IncludeInput, "\n")), "\n"))

(***************************************************************************)
(* C6  no_templating is a single switch for both phases: on every          *)
(* templated endpoint a request with no_templating=1 returns content in    *)
(* which no placeholder has been substituted; <SERVER_URL>, <BASE_URL>,    *)
(* <GIT_COMMIT_SHA>, <TOOL_NAME> and the tool-list sentinel line remain    *)
(* exactly as in the source file.                                          *)
(***************************************************************************)

\* C6 as stated: with no_templating=1 the response is the source file.
C6_Original ==
    (Templated /\ request.no_templating = "1") => response.body = SourceText

(***************************************************************************)
(* C7  GET /health, /list, /install and /installer are never handled by    *)
(* tool resolution: whatever the directory holds, a script named health,   *)
(* list, install or installer (or its poor-prefixed form) included, these  *)
(* requests never call normalize_tool_name and never return that file's    *)
(* content.                                                                *)
(***************************************************************************)

C7_Paths == { "/health", "/list", "/install", "/installer" }

C7_Files ==
    { "health", "list", "install", "installer",
      "poorhealth", "poorlist", "poorinstall", "poorinstaller" }

\* C7: the reserved paths are answered by their own handlers, without name
\* resolution and without the content of a file of a reserved name.
C7_Reserved ==
    (Answered /\ request.path \in C7_Paths) =>
        /\ Handler \notin { "get_tool_script", "get_tool_installer" }
        /\ ~Called("normalize_tool_name")
        /\ \A name \in C7_Files :
              /\ ~(Called("get_file_content") /\ ArgOf("get_file_content") = name)
              /\ Readable(JoinPath(SCRIPT_DIR, name)) =>
                     response.body # ReadText(JoinPath(SCRIPT_DIR, name)).text

\* GET /health answered by the probe while a script named health is a tool.
C7_Witness ==
    /\ request.path = "/health"
    /\ "health" \in DiscoveredSet
    /\ Handler = "health_check"
    /\ response.body = "{\"status\":\"ok\"}"

(***************************************************************************)
(* C8  GET /install, GET /install/ and every other path that begins with   *)
(* /install, apart from /installer itself, return the same bundle          *)
(* installer: the tool-installer template generated with target "all".     *)
(***************************************************************************)

\* C8 as stated.
C8_Original ==
    (Answered /\ StartsWith(request.path, "/install") /\ request.path # "/installer") =>
        /\ Called("generate_tool_installer")
        /\ ArgOf("generate_tool_installer") = "all"
        /\ response = Dispatch([request EXCEPT !.path = "/install"]).response

\* C8 amended: /install and /install/ return the bundle installer; every
\* other path that begins with /install returns what /installer returns, the
\* poor script, and generates no installer.
C8_InstallPaths ==
    (Answered /\ StartsWith(request.path, "/install")) =>
        IF request.path \in {"/install", "/install/"}
        THEN /\ Called("generate_tool_installer")
             /\ ArgOf("generate_tool_installer") = "all"
             /\ response = Dispatch([request EXCEPT !.path = "/install"]).response
        ELSE /\ ~Called("generate_tool_installer")
             /\ Called("get_file_content")
             /\ ArgOf("get_file_content") = "poor"
             /\ response = Dispatch([request EXCEPT !.path = "/installer"]).response

\* GET /install-something answered with the poor script.
C8_Witness ==
    /\ request.path = "/install-something"
    /\ request.no_templating = "1"
    /\ response.status = 200
    /\ response.body = PoorScript

(***************************************************************************)
(* C9  In the bundle installer the sentinel line                           *)
(* TOOLS="nmap curl curl-openssl column socat" is replaced by              *)
(* TOOLS="<list>", the single-space-joined sequence, in sorted discovery   *)
(* order, of exactly the discovered tool names with the "poor" prefix      *)
(* stripped.                                                               *)
(***************************************************************************)

C9_Member(tool) == IF StartsWith(tool, "poor") THEN Drop(tool, 4) ELSE tool

C9_List ==
    LET D == Sorted(DiscoveredSet) IN
    Join([i \in 1..Len(D) |-> C9_Member(D[i])], " ")

C10_Host == IF request.host = None THEN "localhost:7667" ELSE request.host

\* The URL the generated installer carries on its first line.
C10_Shows(url) ==
    /\ Called("generate_tool_installer")
    /\ response.status = 200
    /\ BodyLines[1] = "N=" \o ArgOf("generate_tool_installer") \o " U=" \o url

\* Every response built with the server URL carries url: the installers on
\* their first line, the scripts in place of <BASE_URL>, the JSON listing in
\* its server_url field.
C10_Carries(url) ==
    /\ Called("generate_tool_installer") => C10_Shows(url)
    /\ Called("apply_common_placeholders") =>
           response.body =
               Replace(Replace(process_includes(SourceText, SCRIPT_DIR), "<BASE_URL>", url),
                       "<GIT_COMMIT_SHA>", get_current_version)
    /\ Handler = "list_tools" =>
           Contains(response.body, "\"server_url\": \"" \o url \o "\",")

\* The scheme as C10 states it.
C10_StatedScheme ==
    IF request.xfp = "https" \/ request.xfs = "on" THEN "https"
    ELSE IF request.xfp = "http" THEN "http"
    ELSE request.scheme

C10_Original ==
    (Called("get_server_url") /\ response.status = 200) =>
        C10_Carries(C10_StatedScheme \o "://" \o C10_Host)

\* C10 amended: the scheme is https when x-forwarded-proto is https, when
\* x-forwarded-ssl is on or when the connection is https, and http otherwise;
\* the forwarded headers never turn an https connection into http.
C10_Scheme ==
    IF request.xfp = "https" \/ request.xfs = "on" \/ request.scheme = "https"
    THEN "https" ELSE "http"

C10_ServerUrl ==
    (Called("get_server_url") /\ response.status = 200) =>
        C10_Carries(C10_Scheme \o "://" \o C10_Host)

\* x-forwarded-ssl: on over a plain connection, no Host header.
C10_Witness ==
    /\ request.path = "/curl/install"
    /\ request.xfs = "on"
    /\ request.xfp = None
    /\ request.scheme = "http"
    /\ request.host = None
    /\ C10_Shows("https://localhost:7667")

(***************************************************************************)
(* What a JSON listing shows, read back from the response body             *)
(***************************************************************************)

\* The text between the first two double quotes of a line.
FirstQuoted(line) ==
    LET rest == Drop(line, Find(line, "\"", 1)) IN Take(rest, Find(rest, "\"", 1) - 1)

RECURSIVE KeysAt(_, _)
\* The keys, in order, of the lines indented by exactly `indent`.
KeysAt(lines, indent) ==
    IF Len(lines) = 0 THEN <<>>
    ELSE (IF StartsWith(Head(lines), indent \o "\"")
          THEN <<FirstQuoted(Head(lines))>> ELSE <<>>) \o KeysAt(Tail(lines), indent)

\* The keys of the top-level object of a body written with indent=2.
TopKeys == KeysAt(BodyLines, "  ")

RECURSIVE ValuesOf(_, _)
\* The string values, in order, of the tool fields named key.
ValuesOf(lines, key) ==
    IF Len(lines) = 0 THEN <<>>
    ELSE (IF StartsWith(Head(lines), "      \"" \o key \o "\": \"")
          THEN LET v == Drop(Head(lines), Len("      \"" \o key \o "\": \"")) IN
               <<Take(v, Len(v) - (IF EndsWith(v, ",") THEN 2 ELSE 1))>>
          ELSE <<>>) \o ValuesOf(Tail(lines), key)

\* The names of the tools of a JSON listing, in order.
JsonNames == ValuesOf(BodyLines, "name")

IsJsonListing ==
    /\ response.status = 200
    /\ response.media_type = "application/json; charset=utf-8"

(***************************************************************************)
(* C11  GET /list negotiates on the Accept header: if it contains "json"   *)
(* (case-insensitive) the response is application/json with an object      *)
(* holding exactly the keys server_url, version, tools, count, where count  *)
(* equals the length of tools; otherwise the response is text/plain whose   *)
(* body is the discovered tool names in sorted order, one per line.         *)
(***************************************************************************)

C11_WantsJson ==
    request.accept # None /\ Contains(Lower(request.accept), "json")

\* C11 as stated.
C11_Original ==
    Handler = "list_tools" =>
        IF C11_WantsJson
        THEN /\ IsJsonListing
             /\ TopKeys = <<"server_url", "version", "tools", "count">>
             /\ InSeq("  \"count\": " \o IntToStr(Len(JsonNames)), BodyLines)
        ELSE /\ response.status = 200
             /\ response.media_type = "text/plain; charset=utf-8"
             /\ response.body = Join(Sorted(DiscoveredSet), "\n") \o "\n"

(***************************************************************************)
(* C12  The listing views are views of the same data: for every directory  *)
(* state and configured script directory, the set of tool names in the     *)
(* JSON list (GET /list with a JSON Accept, GET /list/json) equals the set  *)
(* of names in the plain-text list (GET /list) and the set of tools given a *)
(* card or link by GET /, and the description and icon reported for a tool  *)
(* agree between the JSON list and its HTML card.                           *)
(***************************************************************************)

\* The elements of a sequence.
Range(seq) == { seq[i] : i \in 1..Len(seq) }

\* The names of a plain-text listing: its lines, the last line break aside.
PlainNames(body) ==
    Range(Split(Take(body, Len(body) - 1), "\n")) \ {""}

\* The tools a CLI answer of GET / links to: the x of each "(alias: /x)".
LinkNames(body) ==
    { Take(AfterFirst(line, "(alias: /"), Len(AfterFirst(line, "(alias: /")) - 1) :
        line \in { l \in Range(Split(body, "\n")) : Contains(l, " (alias: /") } }

\* The head of the card of a tool, as get_root writes it.
CardHead(name, description, icon) ==
    "<iconify-icon icon=\"" \o icon \o "\" class=\"tool-icon\"></iconify-icon>\n"
    \o "            <h3 class=\"tool-name\">" \o DisplayName(name) \o "</h3>\n"
    \o "          </div>\n          "
    \o (IF description # ""
        THEN "<p class=\"tool-description\">" \o description \o "</p>" ELSE "")
    \o "\n"

\* What the server answers, in the current state, to the other views.
C12_Plain == Dispatch([request EXCEPT !.path = "/list", !.accept = None]).response
C12_Links == Dispatch([request EXCEPT !.path = "/", !.user_agent = "curl/8.5.0"]).response
C12_Cards ==
    Dispatch([request EXCEPT !.path = "/", !.user_agent = "Mozilla/5.0 (X11)"]).response

\* C12 as stated, seen from an answered JSON listing.
C12_Original ==
    (Handler \in {"list_tools", "list_tools_json"} /\ IsJsonListing
        /\ C12_Cards.status = 200) =>
        /\ Range(JsonNames) = PlainNames(C12_Plain.body)
        /\ Range(JsonNames) = LinkNames(C12_Links.body)
        /\ \A i \in 1..Len(JsonNames) :
               Contains(C12_Cards.body,
                        CardHead(JsonNames[i], ValuesOf(BodyLines, "description")[i],
                                 ValuesOf(BodyLines, "icon")[i]))

(***************************************************************************)
(* C13  With templating enabled, GET /{tool} and GET /installer replace     *)
(* every occurrence of <BASE_URL> by the computed server URL and every      *)
(* occurrence of <GIT_COMMIT_SHA> by the version string, and change nothing *)
(* else apart from include expansion: tokens outside that set (e.g.         *)
(* <TOOL_NAME>, <SERVER_URL>) are left as-is, never blanked.                *)
(***************************************************************************)

\* text with value in place of every occurrence of token, and nothing else
\* changed: the pieces between the occurrences, joined by value.
Substituted(text, token, value) == Join(Split(text, token), value)

\* How many times token occurs in text.
Occurrences(text, token) == Len(Split(text, token)) - 1

\* The script routes answering with templating enabled.
C13_Served ==
    /\ Handler \in {"get_tool_script", "get_installer", "get_installer_with_path"}
    /\ response.status = 200
    /\ request.no_templating # "1"

C13_Expanded == process_includes(SourceText, SCRIPT_DIR)

C13_Placeholders ==
    C13_Served =>
        /\ response.body =
               Substituted(Substituted(C13_Expanded, "<BASE_URL>",
                                       C10_Scheme \o "://" \o C10_Host),
                           "<GIT_COMMIT_SHA>", get_current_version)
        /\ \A token \in {"<TOOL_NAME>", "<SERVER_URL>", "<TEMPLATE>"} :
               Occurrences(response.body, token) = Occurrences(C13_Expanded, token)

\* GET /installer over a poor script that carries the two substituted tokens
\* and <TOOL_NAME>, with an include to expand.
C13_Witness ==
    /\ C13_Served
    /\ request.path = "/installer"
    /\ SourceText = PoorScript
    /\ request.host = "h.io"
    /\ response.body = "#!/bin/sh\nB=https://h.io V=v2 T=<TOOL_NAME>\nA_OK\n"

(***************************************************************************)
(* C14  When the tool-installer template (or an HTML template / static      *)
(* asset needed for the browser catalog) is absent on disk, the request     *)
(* ends in a server-side configuration fault, a 500-equivalent response     *)
(* distinct from the 404 Not-Found used for unresolved tool names, and      *)
(* never in a 200 response or a Not-Found.                                  *)
(***************************************************************************)

\* The deployed files the answered request needs, by what its handler set
\* out to do.
C14_Needed ==
    (IF Handler \in {"get_install_all", "get_tool_installer"}
        /\ (Handler = "get_tool_installer" => Resolved # None)
     THEN { JoinPath(JoinPath(SCRIPT_DIR, "templates"), "tool-installer.sh") }
     ELSE {})
    \cup
    (IF Handler = "get_root" /\ Called("load_template")
     THEN { JoinPath(JoinPath(AssetsDir, "templates"), "index.html"),
            JoinPath(JoinPath(AssetsDir, "static"), "style.css"),
            JoinPath(JoinPath(AssetsDir, "static"), "script.js") }
     ELSE {})

\* C14 as stated.
C14_Original ==
    (Answered /\ \E p \in C14_Needed : ~Exists(p)) => response.status = 500

(***************************************************************************)
(* C15  For every name that normalize_tool_name maps to None, GET /{name}   *)
(* and GET /{name}/install respond with 404 Not-Found carrying a message    *)
(* that names the requested tool, and no script or template file is read    *)
(* for that request: neither get_file_content nor generate_tool_installer   *)
(* is called, and no include is expanded.                                   *)
(***************************************************************************)

\* The name in the path of a request handled by a tool route.
C15_Name == calls[1].arg

\* A tool route was asked for a name the priority rule resolves to nothing.
C15_Unresolved ==
    /\ Handler \in {"get_tool_script", "get_tool_installer"}
    /\ C1_Expected(C15_Name, DiscoveredSet) = None

C15_NotFound ==
    C15_Unresolved =>
        /\ response.status = 404
        /\ response.media_type = "application/json"
        /\ response.body = "{\"detail\":\"Tool '" \o C15_Name \o "' not found\"}"
        /\ \A fn \in {"get_file_content", "generate_tool_installer",
                      "process_includes", "apply_common_placeholders"} : ~Called(fn)

\* GET /nope/install while other tools are discovered and the template is
\* deployed.
C15_Witness ==
    /\ C15_Unresolved
    /\ request.path = "/nope/install"
    /\ "curl" \in DiscoveredSet
    /\ Exists(JoinPath(JoinPath(SCRIPT_DIR, "templates"), "tool-installer.sh"))
    /\ response.status = 404

(***************************************************************************)
(* C16  discover_tools returns, for every directory state, a               *)
(* lexicographically sorted, duplicate-free list containing exactly the     *)
(* regular files directly in the script directory whose first line begins   *)
(* with "#!", whose name is not on the denylist ("main.py") and whose name  *)
(* does not start with "."; files in subdirectories are never returned.     *)
(***************************************************************************)

\* The files whose text can be read: regular, readable, valid UTF-8.
C16_Legible(p) == IsFile(p) /\ fs[p].readable /\ fs[p].utf8

\* The names C16 lists: the files directly in the script directory whose
\* first line begins with "#!", main.py and the hidden files aside.
C16_Eligible ==
    { Drop(p, Len(SCRIPT_DIR) + 1) :
        p \in { q \in DOMAIN fs :
                  /\ StartsWith(q, SCRIPT_DIR \o "/")
                  /\ ~Contains(Drop(q, Len(SCRIPT_DIR) + 1), "/")
                  /\ C16_Legible(q)
                  /\ StartsWith(fs[q].text, "#!")
                  /\ Drop(q, Len(SCRIPT_DIR) + 1) # "main.py"
                  /\ ~StartsWith(Drop(q, Len(SCRIPT_DIR) + 1), ".") } }

\* Strictly increasing: sorted and free of duplicates.
C16_Increasing(tools) ==
    \A i \in 1..Len(tools) : \A j \in 1..Len(tools) :
        i < j => StrLess(tools[i], tools[j])

\* C16 as stated.
C16_Original ==
    /\ C16_Increasing(discover_tools)
    /\ Range(discover_tools) = C16_Eligible

(***************************************************************************)
(* C17  Metadata extraction never aborts a listing: for any file that is    *)
(* missing, unreadable, or not decodable as text, every metadata path       *)
(* (get_tool_description, get_tool_icon, extract_script_metadata) returns   *)
(* its empty/default values instead of raising, so GET / (browser), GET     *)
(* /list with JSON and GET /list/json still return a successful listing.    *)
(***************************************************************************)

\* The names in the script directory whose file is missing, unreadable or
\* not decodable.
C17_Illegible ==
    { Drop(p, Len(SCRIPT_DIR) + 1) :
        p \in { q \in DOMAIN fs : /\ StartsWith(q, SCRIPT_DIR \o "/")
                                  /\ ~ReadText(q).ok } }

\* Every metadata path gives its defaults for name.
C17_Defaults(name) ==
    /\ get_tool_description(name) = ""
    /\ get_tool_icon(name) = "mdi:wrench"
    /\ LET m == extract_script_metadata(JoinPath(BASE_DIR, name), name) IN
       /\ ~m.raised
       /\ m.value = [name |-> name, description |-> "", icon |-> "",
                     version |-> get_current_version]

\* The answered request is a listing whose templates and assets are deployed.
C17_Listing ==
    \/ Handler = "list_tools_json"
    \/ Handler = "list_tools" /\ C11_WantsJson
    \/ Handler = "get_root" /\ Called("load_template")
                            /\ \A p \in C14_Needed : Exists(p)

\* C17 as stated.
C17_Original ==
    /\ \A name \in C17_Illegible : C17_Defaults(name)
    /\ C17_Listing => response.status = 200

(***************************************************************************)
(* C18  A requester is classified CLI-like exactly when its User-Agent is   *)
(* empty/absent or contains, case-insensitively, one of the fixed CLI       *)
(* substrings (curl/, wget/, httpie/, lwp-request, python-requests/,        *)
(* python-urllib, go-http-client, rust-hyper, libcurl); GET / returns       *)
(* text/plain for CLI-like requesters and text/html for all others (the     *)
(* page is built from index.html, style.css and script.js: without them     *)
(* there is no page, and the answer is still not text/plain).               *)
(***************************************************************************)

C18_Substrings ==
    { "curl/", "wget/", "httpie/", "lwp-request", "python-requests/",
      "python-urllib", "go-http-client", "rust-hyper", "libcurl" }

\* Some stretch of ua is sub, letter case aside.
C18_Mentions(ua, sub) ==
    \E i \in 1..Len(ua) :
        /\ i + Len(sub) - 1 <= Len(ua)
        /\ Lower(SubSeq(ua, i, i + Len(sub) - 1)) = sub

C18_CliLike(ua) ==
    ua = None \/ ua = "" \/ \E sub \in C18_Substrings : C18_Mentions(ua, sub)

C18_Pages ==
    { JoinPath(JoinPath(AssetsDir, "templates"), "index.html"),
      JoinPath(JoinPath(AssetsDir, "static"), "style.css"),
      JoinPath(JoinPath(AssetsDir, "static"), "script.js") }

C19_Span(line) ==
    IF IsDirective(line) /\ Readable(TargetOf(line))
    THEN (IF Trimmed(TargetOf(line)) = "" THEN 0
          ELSE Len(Split(Trimmed(TargetOf(line)), "\n")))
    ELSE 1

RECURSIVE C19_Length(_)
C19_Length(lines) ==
    IF Len(lines) = 0 THEN 0 ELSE C19_Span(Head(lines)) + C19_Length(Tail(lines))

\* The directives found inside the content the directives of text pull in.
C19_Nested(text) ==
    UNION { DirectivesOf(Trimmed(TargetOf(line))) : line \in DirectivesOf(text) }

C19_SinglePass ==
    Included =>
        /\ response.status = 200
        /\ \A nested \in C19_Nested(IncludeInput) :
               InSeq(AfterIncludes(nested), BodyLines)
        /\ (C19_Length(Split(IncludeInput, "\n")) > 0) =>
               Len(BodyLines) = C19_Length(Split(IncludeInput, "\n"))

\* Two library files that include each other, both included by one script.
C19_Witness ==
    /\ Included
    /\ IncludeInput = HostB
    /\ ReadText(JoinPath(SCRIPT_DIR, "lib/a.sh")).ok
    /\ ReadText(JoinPath(SCRIPT_DIR, "lib/b.sh")).ok
    /\ ReadText(JoinPath(SCRIPT_DIR, "lib/a.sh")).text = "source lib/b.sh # <TEMPLATE>\nA3\n"
    /\ ReadText(JoinPath(SCRIPT_DIR, "lib/b.sh")).text = ". lib/a.sh # <TEMPLATE>\nB3\n"
    /\ response.body =
           "#!/bin/sh\nsource lib/b.sh # <TEMPLATE>\nA3\n. lib/a.sh # <TEMPLATE>\nB3\necho x # <TEMPLATE>\n"

(***************************************************************************)
(* C20  For any content in which no line is a Form A or Form B directive,   *)
(* process_includes returns the content unchanged; for any content          *)
(* containing none of the substituted tokens, placeholder substitution      *)
(* (apply_common_placeholders and the <TOOL_NAME>/<SERVER_URL> replacement) *)
(* returns the content unchanged.                                           *)
(***************************************************************************)

\* text holds none of the tokens.
C20_Free(text, tokens) == \A token \in tokens : ~Contains(text, token)

C20_Identity ==
    /\ (Included /\ DirectivesOf(IncludeInput) = {}) =>
           /\ process_includes(IncludeInput, SCRIPT_DIR) = IncludeInput
           /\ response.body = AfterIncludes(IncludeInput)
    /\ (C13_Served /\ C20_Free(C13_Expanded, {"<BASE_URL>", "<GIT_COMMIT_SHA>"})) =>
           response.body = C13_Expanded
    /\ (Templated /\ Called("generate_tool_installer")
            /\ C20_Free(SourceText, {"<TOOL_NAME>", "<SERVER_URL>", ToolsSentinel})) =>
           IF Included THEN IncludeInput = SourceText ELSE response.body = SourceText

\* A script with no directive and no token, served with templating enabled,
\* comes out as it is on disk.
C20_Witness ==
    /\ C13_Served
    /\ Included
    /\ request.path = "/tool"
    /\ SourceText = PlainScript
    /\ response.body = PlainScript

(***************************************************************************)
(* C21  On every templated endpoint the Include Resolver runs before the    *)
(* Placeholder Substitutor, so a placeholder token that occurs inside       *)
(* included file content is substituted in the response exactly like a      *)
(* token in the host file; this holds for the installer endpoints (GET      *)
(* /install, GET /{tool}/install) as well as for GET /{tool} and GET        *)
(* /installer.                                                              *)
(***************************************************************************)

\* The tokens the route of the answered request substitutes.
C21_Tokens ==
    IF Called("generate_tool_installer")
    THEN {"<TOOL_NAME>", "<SERVER_URL>"}
    ELSE {"<BASE_URL>", "<GIT_COMMIT_SHA>"}

\* C21 as stated: with templating enabled no token of the route is left in
\* the response, wherever it came from.
C21_Original ==
    (Templated /\ request.no_templating # "1") => C20_Free(response.body, C21_Tokens)

(***************************************************************************)
(* C22  For every interleaving of one request with external changes to the  *)
(* script directory (a file deleted or made unreadable between the          *)
(* directory scan, the eligibility check, the existence check and the       *)
(* read), the request ends in a normal response, a Not-Found or a           *)
(* server-fault response produced by the handler, or a degraded include; a  *)
(* file that vanishes or is unreadable during discovery is silently         *)
(* excluded.  No interleaving ends in an unhandled exception.               *)
(***************************************************************************)

\* C22 as stated.
C22_Original ==
    Answered =>
        /\ response # Unhandled
        /\ \/ response.status = 200
           \/ response.status = 404
           \/ response.status = 500 /\ response.media_type = "application/json"

(***************************************************************************)
(* C23  Placeholder substitution gives the same result whatever order the   *)
(* distinct tokens are replaced in, for every content and every binding of  *)
(* values derived from a request (server URL built from the Host header,    *)
(* version string, canonical tool name): replacing <BASE_URL> then          *)
(* <GIT_COMMIT_SHA> equals replacing them in the opposite order, and        *)
(* likewise for <TOOL_NAME> and <SERVER_URL>.                               *)
(***************************************************************************)

\* C23 as stated: every substituted response is what the opposite order of
\* replacement gives.
C23_Original ==
    /\ (Called("apply_common_placeholders") /\ response.status = 200) =>
           response.body =
               Replace(Replace(C13_Expanded, "<GIT_COMMIT_SHA>", get_current_version),
                       "<BASE_URL>", get_server_url(request))
    /\ (Handler = "get_tool_installer" /\ response.status = 200
            /\ request.no_templating = "1") =>
           response.body =
               Replace(Replace(SourceText, "<SERVER_URL>", get_server_url(request)),
                       "<TOOL_NAME>", ArgOf("generate_tool_installer"))

(***************************************************************************)
(* C24  Reserved names never reach tool resolution on the installer route   *)
(* either: GET /health/install and GET /list/install (like GET              *)
(* /install/install and GET /installer/install) never call                  *)
(* normalize_tool_name and never generate a per-tool installer, even when   *)
(* a script named health, list, poorhealth or poorlist exists.              *)
(***************************************************************************)
C24_Reserved == {"health", "list", "install", "installer"}

\* C24 as stated: a request for /<reserved>/install is answered without
\* resolving a tool name and without generating a per-tool installer.
C24_Original ==
    (Answered /\ \E r \in C24_Reserved : request.path = "/" \o r \o "/install") =>
        /\ ~Called("normalize_tool_name")
        /\ ~Called("generate_tool_installer")

\* The part of C24 that the route order gives: /install/install and
\* /installer/install are served by the /install* route.
C24_InstallPrefix ==
    (Answered /\ request.path \in {"/install/install", "/installer/install"}) =>
        /\ Handler = "get_installer_with_path"
        /\ ~Called("normalize_tool_name")

(***************************************************************************)
(* C25  Every member of the tool list substituted into the bundle          *)
(* installer is a resolvable display name: for every discovered set D and  *)
(* every tool t in D, the member m derived from t is non-empty and         *)
(* normalize_tool_name(m) returns t, so distinct discovered tools give     *)
(* distinct, resolvable members.                                           *)
(***************************************************************************)

\* The bundle installer was served with the tool list substituted.
C25_Bundle ==
    /\ Handler = "get_install_all"
    /\ response.status = 200
    /\ InSeq("TOOLS=\"" \o Join(ToolNames(discover_tools), " ") \o "\"", BodyLines)

\* C25 as stated: every member of the substituted list is non-empty and
\* resolves to the tool it was derived from.
C25_Original ==
    C25_Bundle =>
        \A i \in 1..Len(discover_tools) :
            LET t == discover_tools[i]
                m == ToolNames(discover_tools)[i]
            IN  /\ m # ""
                /\ normalize_tool_name(m) = t

\* What the code gives: every non-empty member resolves to some discovered
\* tool that has the same member.
C25_Resolvable ==
    C25_Bundle =>
        \A i \in 1..Len(discover_tools) :
            LET m == ToolNames(discover_tools)[i]
                r == normalize_tool_name(m)
            IN  m # "" =>
                    /\ InSeq(r, discover_tools)
                    /\ r \in {m, "poor" \o m}

(***************************************************************************)
(* C26  In process_includes, a directive whose target exists but is empty  *)
(* after trimming trailing whitespace contributes no output line at all:   *)
(* the directive line is dropped and no blank line is emitted in its       *)
(* place, so the output has exactly one line fewer per empty include.      *)
(***************************************************************************)

\* A directive line whose target is read and is empty once trimmed.
C26_Empty(line) ==
    IsDirective(line) /\ Readable(TargetOf(line)) /\ Trimmed(TargetOf(line)) = ""

\* The lines that are no empty include.
C26_Kept(lines) == SelectSeq(lines, LAMBDA line : ~C26_Empty(line))

\* The text has an empty include, every other directive of it stays as it
\* is, and some line is left.
C26_OnlyEmpty(text) ==
    /\ \E line \in DirectivesOf(text) : C26_Empty(line)
    /\ \A line \in DirectivesOf(text) : Readable(TargetOf(line)) => C26_Empty(line)
    /\ C26_Kept(Split(text, "\n")) # <<>>

\* C26: the response is the input without the lines of the empty includes,
\* one line fewer for each of them.
C26_Dropped ==
    (Included /\ C26_OnlyEmpty(IncludeInput)) =>
        /\ response.status = 200
        /\ response.body =
               AfterIncludes(Join(C26_Kept(Split(IncludeInput, "\n")), "\n"))
        /\ Len(BodyLines) =
               Len(Split(IncludeInput, "\n"))
                 - Cardinality({i \in 1..Len(Split(IncludeInput, "\n")) :
                                   C26_Empty(Split(IncludeInput, "\n")[i])})

\* A script whose only include holds nothing but white space.
C26_Witness ==
    /\ Included
    /\ IncludeInput = HostA
    /\ C26_OnlyEmpty(IncludeInput)
    /\ ReadText(JoinPath(SCRIPT_DIR, "lib/a.sh")).text = " \n"
    /\ Len(Split(IncludeInput, "\n")) = 4
    /\ BodyLines = <<"#!/bin/sh", "run " \o get_server_url(request), "">>

(***************************************************************************)
(* C27  Every metadata extractor (get_tool_description, get_tool_icon,     *)
(* extract_script_metadata) inspects at most the first 10 lines of a       *)
(* script and stops at the first line that is neither blank nor a comment: *)
(* a '# description:', '# icon:' or '# version:' line located after line   *)
(* 10, or after the first non-comment non-blank line, never affects the    *)
(* reported metadata.                                                      *)
(***************************************************************************)

RECURSIVE C27_Header(_, _)
\* The lines an extractor may inspect: of the first 10, those before the
\* first line that is neither blank nor a comment.
C27_Header(lines, i) ==
    IF i > Len(lines) \/ i > 10 THEN <<>>
    ELSE IF Strip(lines[i]) # "" /\ ~StartsWith(Strip(lines[i]), "#") THEN <<>>
    ELSE <<lines[i]>> \o C27_Header(lines, i + 1)

\* The header lines of the script called name in directory dir.
C27_HeaderOf(dir, name) ==
    C27_Header(FileLines(ReadText(JoinPath(dir, name)).text), 1)

\* The page of cards shows, for every script, the description and the icon
\* of its header lines.
C27_Page ==
    (Handler = "get_root" /\ response.status = 200 /\ Called("load_template")) =>
        \A name \in Range(discover_tools) :
            ReadText(JoinPath(SCRIPT_DIR, name)).ok =>
                Contains(response.body,
                    CardHead(name,
                             ScanDescription(C27_HeaderOf(SCRIPT_DIR, name), 0, name),
                             ScanIcon(C27_HeaderOf(SCRIPT_DIR, name), 0)))

\* The JSON listing reports, for every script, the metadata of its header
\* lines.
C27_Listing ==
    (Handler \in {"list_tools", "list_tools_json"} /\ IsJsonListing) =>
        \A i \in 1..Len(JsonNames) :
            LET name == JsonNames[i]
                m == ScanMetadata(C27_HeaderOf(BASE_DIR, name), 1,
                         [name |-> name, description |-> "", icon |-> "",
                          version |-> get_current_version])
            IN  /\ ValuesOf(BodyLines, "description")[i] = m.description
                /\ ValuesOf(BodyLines, "icon")[i] = m.icon
                /\ ValuesOf(BodyLines, "version")[i] = m.version

\* C27 as stated: what is reported of a script is what its header lines
\* alone give.
C27_Original == C27_Page /\ C27_Listing

(***************************************************************************)
(* C28  For a header line of the inline form '# <name> - <description>'    *)
(* (written with an em dash) within the scanned lines,                     *)
(* get_tool_description(<name>) returns the complete <description> text    *)
(* that follows the dash, trimmed, for every description, including        *)
(* descriptions that themselves contain '-' or em dash characters.         *)
(***************************************************************************)

\* The start of the inline form for name.
C28_Prefix(name) == "# " \o name \o " " \o EmDash

\* The scanned lines of the script called name, trimmed.
C28_Scanned(name) ==
    LET lines == FileLines(ReadText(JoinPath(SCRIPT_DIR, name)).text)
    IN  [i \in 1..(IF Len(lines) < 10 THEN Len(lines) ELSE 10) |-> Strip(lines[i])]

\* The scanned lines of name that give a description, in either convention.
C28_Describing(name) ==
    { i \in DOMAIN C28_Scanned(name) :
        \/ StartsWith(C28_Scanned(name)[i], "# description:")
        \/ StartsWith(C28_Scanned(name)[i], C28_Prefix(name))
        \/ StartsWith(C28_Scanned(name)[i], "# " \o name \o " -") }

\* The first describing line of name is of the inline form.
C28_Inline(name) ==
    /\ ReadText(JoinPath(SCRIPT_DIR, name)).ok
    /\ C28_Describing(name) # {}
    /\ LET first == CHOOSE i \in C28_Describing(name) :
                        \A j \in C28_Describing(name) : i <= j
       IN  /\ ~StartsWith(C28_Scanned(name)[first], "# description:")
           /\ StartsWith(C28_Scanned(name)[first], C28_Prefix(name))

\* The text that follows the dash of that line, trimmed.
C28_Description(name) ==
    LET first == CHOOSE i \in C28_Describing(name) :
                     \A j \in C28_Describing(name) : i <= j
    IN  Strip(Drop(C28_Scanned(name)[first], Len(C28_Prefix(name))))

\* C28 as stated: the card of a script with an inline description shows the
\* complete text after the dash.
C28_Original ==
    (Handler = "get_root" /\ response.status = 200 /\ Called("load_template")) =>
        \A name \in Range(discover_tools) :
            C28_Inline(name) =>
                /\ get_tool_description(name) = C28_Description(name)
                /\ Contains(response.body,
                       CardHead(name, C28_Description(name), get_tool_icon(name)))

(***************************************************************************)
(* C29  There is no cross-request state: after any sequence of requests    *)
(* and external additions, removals or edits of script files, the next     *)
(* request's discovery, name resolution and served content are determined  *)
(* solely by the directory state at that moment and the request itself; no *)
(* handler writes to the script directory or to module-level state, so a   *)
(* file added after startup is immediately resolvable and a removed one    *)
(* immediately is not.                                                     *)
(***************************************************************************)

\* The scripts the directory holds at this moment.
C29_Scripts ==
    { name \in IterDir(SCRIPT_DIR) :
        /\ fs[JoinPath(SCRIPT_DIR, name)].kind = "file"
        /\ fs[JoinPath(SCRIPT_DIR, name)].readable
        /\ fs[JoinPath(SCRIPT_DIR, name)].utf8
        /\ StartsWith(Strip(ReadLine(fs[JoinPath(SCRIPT_DIR, name)].text)), "#!")
        /\ name # "main.py"
        /\ ~StartsWith(name, ".") }

\* A step in which a handler answers a request.
C29_Handles == request = NoRequest /\ request' # NoRequest

\* C29: a handler leaves the directory and the module-level state as they
\* are, its response is the one the present state gives to the request, and
\* a tool request is answered 200 exactly when the name resolves among the
\* scripts present, with the present text of that script.
C29_Stateless ==
    [][C29_Handles =>
        /\ UNCHANGED <<fs, SCRIPT_DIR, environ, git_head>>
        /\ response' = Dispatch(request').response
        /\ (/\ Route(request'.path).handler = "get_tool_script"
            /\ Route(request'.path).param \notin C24_Reserved) =>
               LET want == C1_Expected(Route(request'.path).param, C29_Scripts)
               IN  /\ response'.status = 200 <=> want # None
                   /\ (want # None /\ request'.no_templating = "1") =>
                          response'.body = fs[JoinPath(SCRIPT_DIR, want)].text
    ]_vars

\* A script that was not there at startup is served, as written.
C29_Witness ==
    /\ Handler = "get_tool_script"
    /\ request.path = "/curl"
    /\ request.no_templating = "1"
    /\ InitFs[JoinPath(SCRIPT_DIR, "curl")] = Absent
    /\ response.status = 200
    /\ response.body = fs[JoinPath(SCRIPT_DIR, "curl")].text

====
